---- MODULE Spec2Model ----
(***************************************************************************)
(* Market-scan workflow (src/src/market_scan_workflow.py) as a state       *)
(* machine.  The graph built by _build_workflow is executed by the graph   *)
(* library in supersteps: the nodes scheduled for a step all read the      *)
(* state as it was when the step began, run concurrently, and their        *)
(* returned dictionaries are merged into the state when the step ends      *)
(* (errors by list concatenation, processing_status by merge_dicts, every  *)
(* other key by last-value assignment).  A node is scheduled for the next  *)
(* step when a node with an edge to it ran in the step that just ended.    *)
(***************************************************************************)
EXTENDS Integers, Sequences, FiniteSets, TLC

VARIABLES
    pc,                 \* position of run(): "idle", "invoke" or "returned"
    active,             \* nodes scheduled for the current superstep
    writes,             \* node -> dictionary it returned in this superstep
    pdf_processed,      \* MarketScanState.pdf_processed
    pdf_chunks,         \* MarketScanState.pdf_chunks
    outputs,            \* the seven output slots, task id -> text or None
    final_report,       \* MarketScanState.final_report
    errors,             \* MarketScanState.errors
    processing_status,  \* MarketScanState.processing_status
    result,             \* the dictionary run() returns
    execs,              \* node -> number of times its function was invoked
    calls,              \* node -> number of external calls it made
    catalogSeen,        \* task -> what its enablement check found
    callFault,          \* task -> its external call ended in a fault
    bookmarks,          \* the bookmarks parsed from the document's outline
    total_pages,        \* the document's page count
    ranges,             \* what get_bookmark_ranges returned
    pdf_pc,             \* position of process_pdf, or of the range computation
    clock,              \* int(time.time())
    files,              \* path -> content of the document and of output_dir's files
    section_chunks,     \* the pdf_chunks dictionary process_pdf builds
    extract_fault,      \* chunk key -> something went wrong in its extract_pdf_section call
    node_results,       \* the dictionary handed to _create_consolidated_markdown_report
    markdown_report,    \* the report it returned
    outline,            \* list object -> its items: the outline handed to parse_outline_recursive
    stack,              \* the frames of parse_outline_recursive, the running one last
    parsed,             \* what the outermost parse_outline_recursive returned
    parse_pc,           \* "off", "parsing" or "done"
    config_file,        \* the content of prompts_config.yaml
    managers,           \* PromptManager instance -> its prompts_data and prompts_cache
    versions_dir,       \* <<node id, version id>> -> content of the version's JSON file
    cfg_now,            \* datetime.now(), to the second
    task_call,          \* the node function called on its own and the replies it is given
    task_return,        \* the dictionary the node function returned
    edit_pc,            \* HTTP request -> "off", "received", "loaded" or "answered"
    edit_body,          \* HTTP request -> the value its JSON body asks for
    analysis_sessions,  \* analysis id -> its session dictionary
    thread_pc,          \* analysis id -> position of its run_analysis_async thread
    responses           \* analysis id -> the last answer of /api/result/<id>

workflowVars == <<pc, active, writes, pdf_processed, pdf_chunks, outputs, final_report,
                  errors, processing_status, result, execs, calls, catalogSeen, callFault>>

pdfVars == <<bookmarks, total_pages, ranges, pdf_pc, clock, files, section_chunks,
             extract_fault>>

reportVars == <<node_results, markdown_report>>

parseVars == <<outline, stack, parsed, parse_pc>>

configVars == <<config_file, managers, versions_dir, cfg_now>>

taskVars == <<task_call, task_return>>

editVars == <<edit_pc, edit_body>>

sessionVars == <<analysis_sessions, thread_pc, responses>>

vars == <<workflowVars, pdfVars, reportVars, parseVars, configVars, taskVars, editVars, sessionVars>>

nonWorkflowVars == <<pdfVars, reportVars, parseVars, configVars, taskVars, editVars, sessionVars>>

nonPdfVars == <<workflowVars, reportVars, parseVars, configVars, taskVars, editVars, sessionVars>>

nonReportVars == <<workflowVars, pdfVars, parseVars, configVars, taskVars, editVars, sessionVars>>

nonParseVars == <<workflowVars, pdfVars, reportVars, configVars, taskVars, editVars, sessionVars>>

nonConfigVars == <<workflowVars, pdfVars, reportVars, parseVars, taskVars, editVars, sessionVars>>

nonTaskVars == <<workflowVars, pdfVars, reportVars, parseVars, configVars, editVars, sessionVars>>

nonConfigEditVars == <<workflowVars, pdfVars, reportVars, parseVars, taskVars, sessionVars>>

nonEditVars == <<workflowVars, pdfVars, reportVars, parseVars, configVars, taskVars, sessionVars>>

nonSessionVars == <<workflowVars, pdfVars, reportVars, parseVars, configVars, taskVars, editVars>>

----------------------------------------------------------------------------
(* Identifiers *)

SearchTasks == {"company_overview", "industry_overview", "compliance_checks", "news_checks"}

DocTasks == {"promoters_directors", "credit_rating", "financials"}

Tasks == SearchTasks \cup DocTasks

AnalysisNodes == {"node_company", "node_industry", "node_directors", "node_credit",
                  "node_financial", "node_compliance", "node_news"}

Nodes == {"init", "pdf_processor", "writer"} \cup AnalysisNodes

\* The task (state key) each analysis node owns.
TaskOf(n) ==
    CASE n = "node_company"    -> "company_overview"
      [] n = "node_industry"   -> "industry_overview"
      [] n = "node_directors"  -> "promoters_directors"
      [] n = "node_credit"     -> "credit_rating"
      [] n = "node_financial"  -> "financials"
      [] n = "node_compliance" -> "compliance_checks"
      [] n = "node_news"       -> "news_checks"

NodeOf(t) == CHOOSE n \in AnalysisNodes : TaskOf(n) = t

\* add_node order: the order in which a step's writes are merged.
NodeOrder == <<"init", "pdf_processor", "node_company", "node_industry", "node_directors",
               "node_credit", "node_financial", "node_compliance", "node_news", "writer">>

\* Mutant: the edge from init to node_news is left out.
Edges_NoNewsEdge ==
    {<<"init", "pdf_processor">>, <<"init", "node_company">>, <<"init", "node_industry">>,
     <<"init", "node_compliance">>,
     <<"pdf_processor", "node_directors">>, <<"pdf_processor", "node_credit">>,
     <<"pdf_processor", "node_financial">>,
     <<"node_company", "writer">>, <<"node_industry", "writer">>,
     <<"node_directors", "writer">>, <<"node_credit", "writer">>,
     <<"node_financial", "writer">>, <<"node_compliance", "writer">>,
     <<"node_news", "writer">>, <<"writer", "END">>}

\* Mutant: node_company is also made to follow pdf_processor.
Edges_CompanyAfterGate ==
    {<<"init", "pdf_processor">>, <<"init", "node_company">>, <<"init", "node_industry">>,
     <<"init", "node_compliance">>, <<"init", "node_news">>,
     <<"pdf_processor", "node_company">>,
     <<"pdf_processor", "node_directors">>, <<"pdf_processor", "node_credit">>,
     <<"pdf_processor", "node_financial">>,
     <<"node_company", "writer">>, <<"node_industry", "writer">>,
     <<"node_directors", "writer">>, <<"node_credit", "writer">>,
     <<"node_financial", "writer">>, <<"node_compliance", "writer">>,
     <<"node_news", "writer">>, <<"writer", "END">>}

\* Mutant: node_directors is made to follow init as well as pdf_processor.
Edges_DirectorsAfterInit ==
    {<<"init", "pdf_processor">>, <<"init", "node_company">>, <<"init", "node_industry">>,
     <<"init", "node_compliance">>, <<"init", "node_news">>, <<"init", "node_directors">>,
     <<"pdf_processor", "node_directors">>, <<"pdf_processor", "node_credit">>,
     <<"pdf_processor", "node_financial">>,
     <<"node_company", "writer">>, <<"node_industry", "writer">>,
     <<"node_directors", "writer">>, <<"node_credit", "writer">>,
     <<"node_financial", "writer">>, <<"node_compliance", "writer">>,
     <<"node_news", "writer">>, <<"writer", "END">>}

\* Mutant: the three document nodes have no edge into writer.
Edges_DocsNotIntoWriter ==
    {<<"init", "pdf_processor">>, <<"init", "node_company">>, <<"init", "node_industry">>,
     <<"init", "node_compliance">>, <<"init", "node_news">>,
     <<"pdf_processor", "node_directors">>, <<"pdf_processor", "node_credit">>,
     <<"pdf_processor", "node_financial">>,
     <<"node_company", "writer">>, <<"node_industry", "writer">>,
     <<"node_compliance", "writer">>, <<"node_news", "writer">>, <<"writer", "END">>}

\* add_edge calls: every edge has a single start node.
Edges == {<<"init", "pdf_processor">>, <<"init", "node_company">>, <<"init", "node_industry">>,
          <<"init", "node_compliance">>, <<"init", "node_news">>,
          <<"pdf_processor", "node_directors">>, <<"pdf_processor", "node_credit">>,
          <<"pdf_processor", "node_financial">>,
          <<"node_company", "writer">>, <<"node_industry", "writer">>,
          <<"node_directors", "writer">>, <<"node_credit", "writer">>,
          <<"node_financial", "writer">>, <<"node_compliance", "writer">>,
          <<"node_news", "writer">>, <<"writer", "END">>}

\* A node subscribed to single-start edges is triggered by any one of its
\* predecessors having run in the step that ended.
Triggered(ranNodes) == {n \in Nodes : \E m \in ranNodes : <<m, n>> \in Edges}

NoneVal == "None"

Terminal == {"completed", "failed", "skipped"}

EmptyDict == [k \in {} |-> NoneVal]

\* Python truthiness of an Optional[str].
Truthy(v) == v # NoneVal /\ v # ""

Err(n, k) == [node |-> n, kind |-> k]

----------------------------------------------------------------------------
(* State reducers *)

merge_dicts(left, right) == right @@ left

\* Mutant: the errors key without its reducer, the last write replacing the log.
add_Overwrite(left, right) == right

add(left, right) == left \o right

----------------------------------------------------------------------------
(* Collaborators *)

CatalogStates == {"enabled", "disabled", "missing"}

\* is_node_enabled raises for an id the catalog lacks.
is_node_enabled(cat) == cat = "enabled"

\* Mutant: an exception of the enablement check counts as disabled.
_should_execute_node_DefaultDisabled(cat) ==
    IF cat = "missing" THEN FALSE ELSE is_node_enabled(cat)

\* Any exception of the enablement check defaults to enabled.
_should_execute_node(cat) == IF cat = "missing" THEN TRUE ELSE is_node_enabled(cat)

\* get_prompt raises for an unknown id or a template variable it is not given.
get_prompt_raises(cat, templateOk) == cat = "missing" \/ ~templateOk

SearchResponses == {"ok", "short", "malformed", "bad_json", "http_400", "http_403",
                    "http_429", "http_other", "timeout", "network", "unexpected"}

\* Every path returns a non-empty string: the answer, or a message about the fault.
_perform_search_analysis(resp) == IF resp = "ok" THEN "text" ELSE "fault_msg"

GeminiResponses == {"ok", "empty_text", "no_content", "http_error", "timeout",
                    "network", "unreadable_pdf"}

_make_gemini_api_call(resp) ==
    CASE resp = "ok"         -> "text"
      [] resp = "empty_text" -> ""
      [] OTHER               -> NoneVal

\* Mutant: a fault is answered with a message text, as the search service does.
analyze_pdf_from_path_Message(resp) == IF resp = "ok" THEN "text" ELSE "fault_msg"

analyze_pdf_from_path(resp) ==
    IF resp = "unreadable_pdf" THEN NoneVal ELSE _make_gemini_api_call(resp)

analyze_text_content(resp) == _make_gemini_api_call(resp)

GateResults == {"ok", "not_found", "raises"}

\* process_pdf reports a missing document and any exception of its own as a failure.
process_pdf(r) ==
    IF r = "ok" THEN [success |-> TRUE, pdf_chunks |-> "chunks"]
    ELSE [success |-> FALSE, pdf_chunks |-> NoneVal]

----------------------------------------------------------------------------
(* Node functions.  Each yields the dictionary the node returns (delta),    *)
(* whether it reached its external call (called) and whether that call     *)
(* ended in a fault (fault).                                               *)

Out(delta, called, fault) == [delta |-> delta, called |-> called, fault |-> fault]

StatusDelta(t, s) == "processing_status" :> (t :> s)

ErrorDelta(t, k) == "errors" :> <<Err(t, k)>>

\* Mutant: the status map is created without the news_checks key.
_initialize_node_MissingKey ==
    ("errors" :> <<>>)
    @@ ("processing_status" :> [t \in Tasks \ {"news_checks"} |-> "pending"])
    @@ ("pdf_processed" :> FALSE)

_initialize_node ==
    ("errors" :> <<>>) @@ ("processing_status" :> [t \in Tasks |-> "pending"])
    @@ ("pdf_processed" :> FALSE)

\* Mutant: a failed extraction is recorded without an error entry.
_process_pdf_node_Silent(r) ==
    IF ~process_pdf(r).success
    THEN "pdf_processed" :> FALSE
    ELSE ("pdf_chunks" :> process_pdf(r).pdf_chunks) @@ ("pdf_processed" :> TRUE)

_process_pdf_node(r) ==
    IF ~process_pdf(r).success
    THEN ("errors" :> <<Err("pdf_processor", "gate_failed")>>) @@ ("pdf_processed" :> FALSE)
    ELSE ("pdf_chunks" :> process_pdf(r).pdf_chunks) @@ ("pdf_processed" :> TRUE)

\* Mutant: a failed search task sets its slot to the empty text.
SearchNode_EmptySlotOnFailure(t, cat, templateOk, resp) ==
    IF ~_should_execute_node(cat)
    THEN Out(StatusDelta(t, "skipped"), FALSE, FALSE)
    ELSE IF get_prompt_raises(cat, templateOk)
    THEN Out((t :> "") @@ ErrorDelta(t, "exception") @@ StatusDelta(t, "failed"), FALSE, FALSE)
    ELSE LET res == _perform_search_analysis(resp) IN
         IF Truthy(res)
         THEN Out((t :> res) @@ StatusDelta(t, "completed"), TRUE, resp # "ok")
         ELSE Out((t :> "") @@ ErrorDelta(t, "call_failed") @@ StatusDelta(t, "failed"),
                  TRUE, resp # "ok")

\* The four search nodes share one body (nodes 1, 2, 6 and 7).
SearchNode(t, cat, templateOk, resp) ==
    IF ~_should_execute_node(cat)
    THEN Out(StatusDelta(t, "skipped"), FALSE, FALSE)
    ELSE IF get_prompt_raises(cat, templateOk)
    THEN Out(ErrorDelta(t, "exception") @@ StatusDelta(t, "failed"), FALSE, FALSE)
    ELSE LET res == _perform_search_analysis(resp) IN
         IF Truthy(res)
         THEN Out((t :> res) @@ StatusDelta(t, "completed"), TRUE, resp # "ok")
         ELSE Out(ErrorDelta(t, "call_failed") @@ StatusDelta(t, "failed"), TRUE, resp # "ok")

\* Mutant: the state check comes before the enablement check.
DocNode_StateCheckFirst(t, cat, templateOk, resp, processed, chunks) ==
    IF chunks = NoneVal
    THEN Out(ErrorDelta(t, "exception") @@ StatusDelta(t, "failed"), FALSE, FALSE)
    ELSE IF ~_should_execute_node(cat)
    THEN Out(StatusDelta(t, "skipped"), FALSE, FALSE)
    ELSE IF ~processed
    THEN Out(ErrorDelta(t, "pdf_not_processed") @@ StatusDelta(t, "skipped"), FALSE, FALSE)
    ELSE IF get_prompt_raises(cat, templateOk)
    THEN Out(ErrorDelta(t, "exception") @@ StatusDelta(t, "failed"), FALSE, FALSE)
    ELSE LET res == analyze_pdf_from_path(resp) IN
         IF Truthy(res)
         THEN Out((t :> res) @@ StatusDelta(t, "completed"), TRUE, resp # "ok")
         ELSE Out(ErrorDelta(t, "call_failed") @@ StatusDelta(t, "failed"), TRUE, resp # "ok")

\* The three document nodes share one body (nodes 3, 4 and 5).  The state
\* check that is logged first calls .keys() on pdf_chunks, which is None
\* until the extraction gate has stored the chunks.
DocNode(t, cat, templateOk, resp, processed, chunks) ==
    IF ~_should_execute_node(cat)
    THEN Out(StatusDelta(t, "skipped"), FALSE, FALSE)
    ELSE IF chunks = NoneVal
    THEN Out(ErrorDelta(t, "exception") @@ StatusDelta(t, "failed"), FALSE, FALSE)
    ELSE IF ~processed
    THEN Out(ErrorDelta(t, "pdf_not_processed") @@ StatusDelta(t, "skipped"), FALSE, FALSE)
    ELSE IF get_prompt_raises(cat, templateOk)
    THEN Out(ErrorDelta(t, "exception") @@ StatusDelta(t, "failed"), FALSE, FALSE)
    ELSE LET res == analyze_pdf_from_path(resp) IN
         IF Truthy(res)
         THEN Out((t :> res) @@ StatusDelta(t, "completed"), TRUE, resp # "ok")
         ELSE Out(ErrorDelta(t, "call_failed") @@ StatusDelta(t, "failed"), TRUE, resp # "ok")

_company_overview_node(cat, templateOk, resp) ==
    SearchNode("company_overview", cat, templateOk, resp)

\* Mutant: the body copied from node 1 with its keys left unchanged.
_industry_overview_node_CopiedKeys(cat, templateOk, resp) ==
    SearchNode("company_overview", cat, templateOk, resp)

_industry_overview_node(cat, templateOk, resp) ==
    SearchNode("industry_overview", cat, templateOk, resp)

_compliance_checks_node(cat, templateOk, resp) ==
    SearchNode("compliance_checks", cat, templateOk, resp)

_news_checks_node(cat, templateOk, resp) ==
    SearchNode("news_checks", cat, templateOk, resp)

_promoters_directors_node(cat, templateOk, resp, processed, chunks) ==
    DocNode("promoters_directors", cat, templateOk, resp, processed, chunks)

_credit_rating_node(cat, templateOk, resp, processed, chunks) ==
    DocNode("credit_rating", cat, templateOk, resp, processed, chunks)

_financials_node(cat, templateOk, resp, processed, chunks) ==
    DocNode("financials", cat, templateOk, resp, processed, chunks)

SearchNodeFn(n, cat, templateOk, resp) ==
    CASE n = "node_company"    -> _company_overview_node(cat, templateOk, resp)
      [] n = "node_industry"   -> _industry_overview_node(cat, templateOk, resp)
      [] n = "node_compliance" -> _compliance_checks_node(cat, templateOk, resp)
      [] n = "node_news"       -> _news_checks_node(cat, templateOk, resp)

DocNodeFn(n, cat, templateOk, resp, processed, chunks) ==
    CASE n = "node_directors" -> _promoters_directors_node(cat, templateOk, resp, processed, chunks)
      [] n = "node_credit"    -> _credit_rating_node(cat, templateOk, resp, processed, chunks)
      [] n = "node_financial" -> _financials_node(cat, templateOk, resp, processed, chunks)

----------------------------------------------------------------------------
(* Report writer *)

SectionOrder == <<"company_overview", "industry_overview", "promoters_directors",
                  "credit_rating", "financials", "compliance_checks", "news_checks">>

\* The header line of a section of the concatenated report.
section_header(key) ==
    CASE key = "company_overview"    -> "## 1. Company & Business Overview"
      [] key = "industry_overview"   -> "## 2. Industry Overview"
      [] key = "promoters_directors" -> "## 3. Promoters and Board of Directors"
      [] key = "credit_rating"       -> "## 4. Credit Rating History"
      [] key = "financials"          -> "## 5. Financial Performance"
      [] key = "compliance_checks"   -> "## 6. Compliance & Due Diligence"
      [] key = "news_checks"         -> "## 7. News & Media Analysis"

\* An output that begins with the header line of its own section.
HeadedText(key) ==
    CASE key = "company_overview"    -> "## 1. Company & Business Overview // text"
      [] key = "industry_overview"   -> "## 2. Industry Overview // text"
      [] key = "promoters_directors" -> "## 3. Promoters and Board of Directors // text"
      [] key = "credit_rating"       -> "## 4. Credit Rating History // text"
      [] key = "financials"          -> "## 5. Financial Performance // text"
      [] key = "compliance_checks"   -> "## 6. Compliance & Due Diligence // text"
      [] key = "news_checks"         -> "## 7. News & Media Analysis // text"

\* section_content.strip().startswith(f"## {section_title}"): of the texts
\* considered only HeadedText(key) begins with the header of section key.
starts_with_header(section_content, key) == section_content = HeadedText(key)

\* Mutant: only the presence of the key is tested.
has_section_output_KeyOnly(results, key) == key \in DOMAIN results

\* section_key in node_results and node_results[section_key]
has_section_output(results, key) ==
    key \in DOMAIN results /\ Truthy(results[key])

\* The blocks one section adds to the report.
section_blocks(results, key) ==
    IF has_section_output(results, key)
    THEN IF starts_with_header(results[key], key)
         THEN <<results[key], "---">>
         ELSE <<section_header(key), results[key], "---">>
    ELSE <<section_header(key), "*No data available for this section.*", "---">>

\* The report is the sequence of its blocks.
_create_consolidated_markdown_report(results) ==
    [kind |-> "markdown_report",
     content |-> <<"report_header">>
                 \o section_blocks(results, SectionOrder[1])
                 \o section_blocks(results, SectionOrder[2])
                 \o section_blocks(results, SectionOrder[3])
                 \o section_blocks(results, SectionOrder[4])
                 \o section_blocks(results, SectionOrder[5])
                 \o section_blocks(results, SectionOrder[6])
                 \o section_blocks(results, SectionOrder[7])
                 \o <<"report_footer">>]

_generate_error_report(errs) == [kind |-> "error_report", listed |-> errs]

\* The text the collaborator answered for the content it was sent.
LlmReport(sent) == [kind |-> "llm_report", sent |-> sent]

\* The text that str.format and an f-string put for the value None: the word
\* None, written here so that it differs from the value NoneVal itself.
NoneText == "text:None"

\* The text a value becomes inside a template or an f-string.
format_text(v) == IF v = NoneVal THEN NoneText ELSE v

\* state.get(key, ''): the default is for a key that is not in the state.
state_get(state, key, default) == IF key \in DOMAIN state THEN state[key] ELSE default

\* What the sink sends: the variables of the consolidation prompt and the
\* sections of all_content, by task.
primary_call_content(outs) ==
    [prompt |-> [t \in Tasks |-> format_text(state_get(outs, t, ""))],
     all_content |-> [t \in Tasks |-> format_text(state_get(outs, t, ""))]]

\* Mutant: the data is insufficient only when none of the seven outputs is there.
insufficient_data_AllSeven(outs) == \A t \in Tasks : ~Truthy(outs[t])

\* not company_overview and not industry_overview and not promoters_directors
insufficient_data(outs) ==
    ~Truthy(outs["company_overview"]) /\ ~Truthy(outs["industry_overview"])
    /\ ~Truthy(outs["promoters_directors"])

_report_writer_node(outs, errs, promptOk, tmpOk, resp, saveOk) ==
    IF insufficient_data(outs)
    THEN Out(("final_report" :> _generate_error_report(errs))
             @@ ("errors" :> <<Err("writer", "insufficient_data")>>), FALSE, FALSE)
    ELSE IF ~promptOk \/ ~tmpOk
    THEN Out(("final_report" :> _generate_error_report(errs))
             @@ ("errors" :> <<Err("writer", "consolidation_error")>>), FALSE, FALSE)
    ELSE LET llm_final_report == analyze_text_content(resp) IN
         IF ~saveOk
         THEN Out("final_report" :> _create_consolidated_markdown_report(outs), TRUE, resp # "ok")
         ELSE IF ~Truthy(llm_final_report)
         THEN Out("final_report" :> _create_consolidated_markdown_report(outs), TRUE, resp # "ok")
         ELSE Out("final_report" :> LlmReport(primary_call_content(outs)), TRUE, resp # "ok")

----------------------------------------------------------------------------
(* Merging a superstep's writes *)

NoReport == [kind |-> "None"]

NoResult == [kind |-> "None"]

LastValueKeys == Tasks \cup {"pdf_processed", "pdf_chunks", "final_report"}

Writers(w, key) == {n \in DOMAIN w : key \in DOMAIN w[n]}

\* A key without a reducer accepts one value per step.
InvalidUpdate(w) == \E key \in LastValueKeys : Cardinality(Writers(w, key)) > 1

LastValue(old, w, key) ==
    IF Writers(w, key) = {} THEN old ELSE w[CHOOSE n \in Writers(w, key) : TRUE][key]

RECURSIVE MergeErrors(_, _, _)
MergeErrors(acc, w, i) ==
    IF i > Len(NodeOrder) THEN acc
    ELSE MergeErrors(IF NodeOrder[i] \in Writers(w, "errors")
                     THEN add(acc, w[NodeOrder[i]]["errors"]) ELSE acc, w, i + 1)

RECURSIVE MergeStatus(_, _, _)
MergeStatus(acc, w, i) ==
    IF i > Len(NodeOrder) THEN acc
    ELSE MergeStatus(IF NodeOrder[i] \in Writers(w, "processing_status")
                     THEN merge_dicts(acc, w[NodeOrder[i]]["processing_status"]) ELSE acc,
                     w, i + 1)

Status(t) == IF t \in DOMAIN processing_status THEN processing_status[t] ELSE "absent"

----------------------------------------------------------------------------
(* PDF section extraction (src/src/pdf_utils.py).  A title is the sequence *)
(* of its characters; a bookmark is [title, page] with a zero-based page.  *)

Digits == {"0", "1", "2", "3", "4", "5", "6", "7", "8", "9"}

UpperAlphabet == <<"A", "B", "C", "D", "E", "F", "G", "H", "I", "J", "K", "L", "M",
                   "N", "O", "P", "Q", "R", "S", "T", "U", "V", "W", "X", "Y", "Z">>

LowerAlphabet == <<"a", "b", "c", "d", "e", "f", "g", "h", "i", "j", "k", "l", "m",
                   "n", "o", "p", "q", "r", "s", "t", "u", "v", "w", "x", "y", "z">>

UpperLetters == {UpperAlphabet[i] : i \in DOMAIN UpperAlphabet}

Whitespace == {" ", "\t", "\n"}

\* str.upper(), character by character.
upper(s) ==
    [i \in DOMAIN s |->
        IF \E k \in DOMAIN LowerAlphabet : LowerAlphabet[k] = s[i]
        THEN UpperAlphabet[CHOOSE k \in DOMAIN LowerAlphabet : LowerAlphabet[k] = s[i]]
        ELSE s[i]]

\* str.strip(): leading and trailing whitespace removed.
strip(s) ==
    LET inked == {i \in DOMAIN s : s[i] \notin Whitespace} IN
    IF inked = {} THEN <<>>
    ELSE SubSeq(s, CHOOSE i \in inked : \A j \in inked : i <= j,
                   CHOOSE i \in inked : \A j \in inked : i >= j)

\* needle in hay, for strings.
Contains(hay, needle) ==
    \E k \in 0..(Len(hay) - Len(needle)) : \A i \in DOMAIN needle : hay[k + i] = needle[i]

\* Mutant: the pattern's letter class is [A-Za-z\s].
matches_numbered_section_AnyCase(title) ==
    \E i \in DOMAIN title, j \in DOMAIN title :
        /\ \A k \in 1..i : title[k] \in Digits
        /\ i + 1 <= Len(title) /\ title[i + 1] = "."
        /\ j >= i + 2 /\ \A k \in (i + 2)..j : title[k] \in Whitespace
        /\ j < Len(title)
        /\ \A k \in (j + 1)..Len(title) :
              title[k] \in UpperLetters \cup Whitespace
                            \cup {LowerAlphabet[n] : n \in DOMAIN LowerAlphabet}

\* re.match(r'^\d+\.\s+[A-Z\s]+$', title): digits title[1..i], a period,
\* whitespace title[i+2..j], then capitals and whitespace to the end.
matches_numbered_section(title) ==
    \E i \in DOMAIN title, j \in DOMAIN title :
        /\ \A k \in 1..i : title[k] \in Digits
        /\ i + 1 <= Len(title) /\ title[i + 1] = "."
        /\ j >= i + 2 /\ \A k \in (i + 2)..j : title[k] \in Whitespace
        /\ j < Len(title)
        /\ \A k \in (j + 1)..Len(title) : title[k] \in UpperLetters \cup Whitespace

\* Mutant: the list is left in outline order.
sorted_by_page_Unsorted(s) == s

\* sort(key=lambda x: x['page']): stable, ascending by page.
RECURSIVE sorted_by_page(_)
sorted_by_page(s) ==
    IF s = <<>> THEN <<>>
    ELSE LET rest == sorted_by_page(SubSeq(s, 1, Len(s) - 1))
             x == s[Len(s)]
             k == Cardinality({i \in DOMAIN rest : rest[i].page <= x.page})
         IN SubSeq(rest, 1, k) \o <<x>> \o SubSeq(rest, k + 1, Len(rest))

\* The except clause (fall back to all bookmarks) is not reached: titles are
\* strings and pages integers.
filter_main_sections(bms) ==
    sorted_by_page(SelectSeq(bms, LAMBDA b : matches_numbered_section(strip(b.title))))

\* Mutant: the section ends on the page where the next one starts.
section_end_page_NextStart(sorted_sections, i, total) ==
    IF i < Len(sorted_sections) THEN sorted_sections[i + 1].page ELSE total - 1

section_end_page(sorted_sections, i, total) ==
    IF i < Len(sorted_sections) THEN sorted_sections[i + 1].page - 1 ELSE total - 1

\* Mutant: every computed range is kept.
valid_range_Always(start_page, end_page) == TRUE

valid_range(start_page, end_page) == end_page >= start_page

get_bookmark_ranges(bms, total) ==
    LET main_sections == filter_main_sections(bms) IN
    IF main_sections = <<>> THEN <<>>
    ELSE LET sorted_sections == sorted_by_page(main_sections)
             computed ==
                [i \in DOMAIN sorted_sections |->
                    LET start_page == sorted_sections[i].page
                        end_page == section_end_page(sorted_sections, i, total)
                    IN [title |-> sorted_sections[i].title, start_page |-> start_page,
                        end_page |-> end_page, page_count |-> end_page - start_page + 1]]
         IN SelectSeq(computed, LAMBDA r : valid_range(r.start_page, r.end_page))

\* Titles of the outlines considered.
T_PROFILE == <<"1", ".", " ", "P", "R", "O", "F", "I", "L", "E">>

T_DIRECTORS == <<"2", ".", " ", "D", "I", "R", "E", "C", "T", "O", "R", "S">>

T_OPERATING == <<"3", ".", " ", "O", "P", "E", "R", "A", "T", "I", "N", "G">>

T_RATING == <<"4", ".", " ", "R", "A", "T", "I", "N", "G">>

T_FINANCIALS == <<"5", ".", " ", "F", "I", "N", "A", "N", "C", "I", "A", "L", "S">>

T_APPENDIX == <<"A", "p", "p", "e", "n", "d", "i", "x", " ", "A">>

T_SUBSECTION == <<"2", ".", "1", " ", "D", "i", "r", "e", "c", "t", "o", "r", "s">>

T_NOSPACE == <<"7", ".", "N", "O", "T", "E", "S">>

T_MIXED == <<"8", ".", " ", "N", "o", "t", "e", "s">>

T_UNNUMBERED == <<"R", "A", "T", "I", "N", "G">>

CanonicalTitles == {T_PROFILE, T_DIRECTORS, T_OPERATING, T_RATING, T_FINANCIALS}

NonCanonicalTitles == {T_APPENDIX, T_SUBSECTION, T_NOSPACE, T_MIXED, T_UNNUMBERED}

Bookmark(title, page) == [title |-> title, page |-> page]

\* The section keywords process_pdf asks for, by key of pdf_chunks.
ChunkKeys == <<"directors", "rating", "financials">>

section_keyword(key) ==
    CASE key = "directors"  -> <<"D", "I", "R", "E", "C", "T", "O", "R", "S">>
      [] key = "rating"     -> <<"R", "A", "T", "I", "N", "G">>
      [] key = "financials" -> <<"F", "I", "N", "A", "N", "C", "I", "A", "L", "S">>

\* A path: the uploaded document, or a file of output_dir named
\* temp_extract_<time>_<pages>pages.pdf.
pdf_path == [name |-> "input", time |-> 0, pages |-> 0]

NoPath == [name |-> "None", time |-> 0, pages |-> 0]

temp_filename(now, page_numbers) ==
    [name |-> "temp_extract", time |-> now, pages |-> Len(page_numbers)]

\* The content of a document: the source pages it is made of, in order.
SourcePages(total) == [i \in 1..total |-> i - 1]

\* What may go wrong in one extract_pdf_section call.
ExtractFaults == {"none", "no_pypdf2", "bookmarks_unreadable", "page_count_unreadable",
                  "open_failed", "write_failed"}

\* An Optional[int] is the set of its values: {} is None.
get_pdf_page_count(total, fault) ==
    IF fault = "page_count_unreadable" THEN {} ELSE {total}

extract_pdf_bookmarks(bms, fault) ==
    IF fault = "bookmarks_unreadable" THEN <<>> ELSE bms

\* list(range(section['start_page'], section['end_page'] + 1))
pages_to_extract(section) ==
    [k \in 1..(section.end_page + 1 - section.start_page) |-> section.start_page + k - 1]

\* Mutant: the path is returned although the file could not be written.
extract_pages_PathOnFailure(fs, page_numbers, now, fault) ==
    [fs |-> fs, path |-> temp_filename(now, page_numbers)]

\* The pages are written to the temporary file; a failure to open either
\* file leaves the directory as it was, a failure while writing leaves the
\* output file truncated, and both return None.
extract_pages(fs, page_numbers, now, fault) ==
    LET temp_path == temp_filename(now, page_numbers)
        source == fs[pdf_path]
        written == SelectSeq(page_numbers, LAMBDA p : 0 <= p /\ p < Len(source))
    IN CASE fault = "open_failed"  -> [fs |-> fs, path |-> NoPath]
         [] fault = "write_failed" -> [fs |-> (temp_path :> <<>>) @@ fs, path |-> NoPath]
         [] OTHER -> [fs |-> (temp_path :> [i \in DOMAIN written |-> source[written[i] + 1]])
                             @@ fs,
                      path |-> temp_path]

\* Mutant: the last matching section is taken.
first_matching_section_Last(rs, keyword) ==
    LET hits == {i \in DOMAIN rs : Contains(upper(rs[i].title), upper(keyword))} IN
    IF hits = {} THEN 0 ELSE CHOOSE i \in hits : \A j \in hits : i >= j

\* The loop over ranges stops at the first title holding the keyword; 0: none.
first_matching_section(rs, keyword) ==
    LET hits == {i \in DOMAIN rs : Contains(upper(rs[i].title), upper(keyword))} IN
    IF hits = {} THEN 0 ELSE CHOOSE i \in hits : \A j \in hits : i <= j

\* Yields the directory after the call and the path returned.
extract_pdf_section(fs, bms, total, keyword, now, fault) ==
    LET unchanged == [fs |-> fs, path |-> pdf_path]
        found == extract_pdf_bookmarks(bms, fault)
        count == get_pdf_page_count(total, fault)
        rs == get_bookmark_ranges(found, total)
        hit == first_matching_section(rs, keyword)
        temp_pdf == extract_pages(fs, pages_to_extract(rs[hit]), now, fault)
    IN IF fault = "no_pypdf2" THEN unchanged
       ELSE IF found = <<>> THEN unchanged
       ELSE IF count = {} \/ count = {0} THEN unchanged
       ELSE IF rs = <<>> THEN unchanged
       ELSE IF hit = 0 THEN unchanged
       ELSE IF temp_pdf.path # NoPath THEN temp_pdf
       ELSE [fs |-> temp_pdf.fs, path |-> pdf_path]

----------------------------------------------------------------------------
(* PromptManager: the configuration file, its instances, the version files *)

\* Python values: a bool or a str; Absent stands for a key that is not there.
PyTrue == [type |-> "bool", val |-> "True"]

PyFalse == [type |-> "bool", val |-> "False"]

PyStr(text) == [type |-> "str", val |-> text]

Absent == [type |-> "absent", val |-> ""]

\* A scalar of a YAML document: plain or quoted text; NoScalar for a missing key.
Scalar(style, text) == [style |-> style, text |-> text]

NoScalar == Scalar("missing", "")

\* The plain scalars the YAML resolver reads as a bool.
YamlTrueTexts == {"true", "True", "TRUE", "yes", "Yes", "on", "On"}

YamlFalseTexts == {"false", "False", "FALSE", "no", "No", "off", "Off"}

\* Mutant: strings are always written plain.
yaml_dump_value_NeverQuoted(v) ==
    CASE v = PyTrue  -> Scalar("plain", "true")
      [] v = PyFalse -> Scalar("plain", "false")
      [] OTHER       -> Scalar("plain", v.val)

\* yaml.dump of a value: a bool as true/false, a str plain unless the plain
\* text would be read back as something other than that str.
yaml_dump_value(v) ==
    CASE v = PyTrue  -> Scalar("plain", "true")
      [] v = PyFalse -> Scalar("plain", "false")
      [] v.val \in YamlTrueTexts \cup YamlFalseTexts \cup {""} -> Scalar("quoted", v.val)
      [] OTHER       -> Scalar("plain", v.val)

\* yaml.safe_load of a scalar.
yaml_load_value(x) ==
    CASE x.style = "missing" -> Absent
      [] x.style = "quoted"  -> PyStr(x.text)
      [] x.text \in YamlTrueTexts  -> PyTrue
      [] x.text \in YamlFalseTexts -> PyFalse
      [] OTHER -> PyStr(x.text)

\* A PromptManager that has not been constructed.
NoManager == [loaded |-> FALSE, nodes |-> <<>>, cache |-> <<>>]

\* _validate_configuration: a node without an 'enabled' key gets enabled = True.
_validate_configuration(nodes) ==
    [n \in DOMAIN nodes |->
        [nodes[n] EXCEPT !.enabled = IF @ = Absent THEN PyTrue ELSE @]]

\* _cache_all_prompts, when settings.cache_prompts is on.
_cache_all_prompts(file, nodes) ==
    IF file.cache_prompts THEN [n \in DOMAIN nodes |-> nodes[n].prompt_template] ELSE <<>>

\* PromptManager(): _load_configuration reads the file, validates and caches.
_load_configuration(file) ==
    LET loaded == [n \in DOMAIN file.nodes |->
                      [prompt_template |-> yaml_load_value(file.nodes[n].prompt_template),
                       enabled |-> yaml_load_value(file.nodes[n].enabled)]]
        nodes == _validate_configuration(loaded)
    IN [loaded |-> TRUE, nodes |-> nodes, cache |-> _cache_all_prompts(file, nodes)]

\* _save_configuration: the whole of prompts_data is written over the file.
_save_configuration(file, manager) ==
    [file EXCEPT !.nodes =
        [n \in DOMAIN manager.nodes |->
            [prompt_template |-> yaml_dump_value(manager.nodes[n].prompt_template),
             enabled |-> yaml_dump_value(manager.nodes[n].enabled)]]]

is_node_enabled_of(manager, node_id) == manager.nodes[node_id].enabled

\* The template get_prompt formats: from the cache if the node is in it.
active_prompt(manager, node_id) ==
    IF node_id \in DOMAIN manager.cache
    THEN manager.cache[node_id]
    ELSE manager.nodes[node_id].prompt_template

\* set_node_enabled, in memory.
set_node_enabled_data(manager, node_id, enabled) ==
    [manager EXCEPT !.nodes[node_id].enabled = enabled]

\* Mutant: update_prompt changes prompts_data and leaves the cache as it was.
update_prompt_data_StaleCache(manager, node_id, new_prompt) ==
    [manager EXCEPT !.nodes[node_id].prompt_template = new_prompt]

\* update_prompt, in memory: prompts_data and, if the node is cached, the cache.
update_prompt_data(manager, node_id, new_prompt) ==
    [manager EXCEPT !.nodes[node_id].prompt_template = new_prompt,
                    !.cache = IF node_id \in DOMAIN @
                              THEN [@ EXCEPT ![node_id] = new_prompt] ELSE @]

\* The version object of save_prompt_version; version_id is the timestamp.
version_data(node_id, prompt_template, version_name, now) ==
    [version_id |-> now,
     version_name |-> IF version_name = "" THEN "Version <timestamp>" ELSE version_name,
     prompt_template |-> prompt_template, node_id |-> node_id]

\* json.dump and json.load of a version object: a str is a JSON string, a bool
\* a JSON literal.
json_dump_value(v) == IF v.type = "str" THEN Scalar("string", v.val)
                      ELSE Scalar("literal", IF v = PyTrue THEN "true" ELSE "false")

json_load_value(x) == IF x.style = "string" THEN PyStr(x.text)
                      ELSE IF x.text = "true" THEN PyTrue ELSE PyFalse

json_dump(version) == [version EXCEPT !.prompt_template = json_dump_value(@)]

json_load(text) == [text EXCEPT !.prompt_template = json_load_value(@)]

\* get_version: the version's file, which must exist.
get_version(dir, node_id, version_id) == json_load(dir[<<node_id, version_id>>])

\* get_version_history: the versions in the node's directory.
get_version_history(dir, node_id) ==
    {json_load(dir[f]) : f \in {g \in DOMAIN dir : g[1] = node_id}}

ConfigOff ==
    /\ config_file = [cache_prompts |-> TRUE, nodes |-> <<>>]
    /\ managers = <<>>
    /\ versions_dir = <<>>
    /\ cfg_now = 0

\* An item of an outline list: a destination, or a nested list (a reference
\* to a list object, so that a list may hold itself).
DestItem(title, page, resolves) ==
    [kind |-> "dest", title |-> title, page |-> page, resolves |-> resolves, ref |-> 0]

ListItem(ref) ==
    [kind |-> "list", title |-> <<>>, page |-> 0, resolves |-> TRUE, ref |-> ref]

\* title = item.title.strip(); page_num = get_destination_page_number(item);
\* an item for which either raises is left out.
parse_leaf(item) ==
    IF item.resolves THEN <<Bookmark(strip(item.title), item.page)>> ELSE <<>>

\* Mutant: the entries of a nested list are put before those already collected.
extend_Prepend(collected, nested) == nested \o collected

\* bookmarks.extend(...)
extend(collected, nested) == collected \o nested

\* A frame of parse_outline_recursive: the list it iterates over, the index of
\* the item it is at, and its local bookmarks.
Frame(list, i, collected) == [list |-> list, i |-> i, bookmarks |-> collected]

ParseOff ==
    /\ outline = <<>>
    /\ stack = <<>>
    /\ parsed = <<>>
    /\ parse_pc = "off"

\* No document is being processed.
PdfOff ==
    /\ bookmarks = <<>>
    /\ total_pages = 0
    /\ ranges = <<>>
    /\ pdf_pc = "off"
    /\ clock = 0
    /\ files = EmptyDict
    /\ section_chunks = EmptyDict
    /\ extract_fault = EmptyDict

\* No report is being assembled.
ReportOff ==
    /\ node_results = EmptyDict
    /\ markdown_report = NoReport

----------------------------------------------------------------------------
(* run() *)

initial_outputs == [t \in Tasks |-> NoneVal]

RunResult(report, errs, status, outs) ==
    [success |-> TRUE, report |-> report, errors |-> errs,
     processing_status |-> status, outputs |-> outs]

RunFailure ==
    [success |-> FALSE, report |-> NoReport, errors |-> <<Err("run", "exception")>>,
     processing_status |-> EmptyDict]

\* Mutant: run() without its except clause.
RunBoundary_NoExcept(normal) ==
    IF normal.raised THEN [pc |-> "raised", result |-> NoResult]
    ELSE [pc |-> "returned", result |-> normal.result]

\* The except clause of run(): a fault of invoke becomes a failure result.
RunBoundary(normal) ==
    IF normal.raised THEN [pc |-> "returned", result |-> RunFailure]
    ELSE [pc |-> "returned", result |-> normal.result]

\* No run has been started.
WorkflowIdle ==
    /\ pc = "idle"
    /\ active = {}
    /\ writes = EmptyDict
    /\ pdf_processed = FALSE
    /\ pdf_chunks = NoneVal
    /\ outputs = initial_outputs
    /\ final_report = NoReport
    /\ errors = <<>>
    /\ processing_status = EmptyDict
    /\ result = NoResult
    /\ execs = [n \in Nodes |-> 0]
    /\ calls = [n \in Nodes |-> 0]
    /\ catalogSeen = [t \in Tasks |-> "unread"]
    /\ callFault = [t \in Tasks |-> FALSE]

\* No node function has been called on its own.
NoCall == [node |-> NoneVal]

NoReturn == [delta |-> EmptyDict, called |-> FALSE, fault |-> FALSE]

TaskOff == task_call = NoCall /\ task_return = NoReturn

\* The two configuration requests of the server.
EditRequests == {"toggle_node", "update_node"}

EditOff ==
    /\ edit_pc = [r \in EditRequests |-> "off"]
    /\ edit_body = [r \in EditRequests |-> NoneVal]

\* The analysis ids that uuid4 gives out.
SessionIds == {"a1", "a2"}

NoResponse == [code |-> 0]

SessionOff ==
    /\ analysis_sessions = EmptyDict
    /\ thread_pc = [id \in SessionIds |-> "none"]
    /\ responses = [id \in SessionIds |-> NoResponse]

Init == WorkflowIdle /\ PdfOff /\ ReportOff /\ ParseOff /\ ConfigOff /\ TaskOff /\ EditOff /\ SessionOff

\* run() builds initial_state and hands it to the compiled graph.
RunStart ==
    /\ pc = "idle"
    /\ pc' = "invoke"
    /\ active' = {"init"}
    /\ writes' = EmptyDict
    /\ pdf_processed' = FALSE
    /\ pdf_chunks' = NoneVal
    /\ outputs' = initial_outputs
    /\ final_report' = NoReport
    /\ errors' = <<>>
    /\ processing_status' = EmptyDict
    /\ UNCHANGED <<result, execs, calls, catalogSeen, callFault, nonWorkflowVars>>

Runnable(n) == pc = "invoke" /\ n \in active /\ n \notin DOMAIN writes

Finish(n, delta, called) ==
    /\ writes' = (n :> delta) @@ writes
    /\ execs' = [execs EXCEPT ![n] = @ + 1]
    /\ calls' = [calls EXCEPT ![n] = @ + (IF called THEN 1 ELSE 0)]
    /\ UNCHANGED <<pc, active, pdf_processed, pdf_chunks, outputs, final_report,
                   errors, processing_status, result, nonWorkflowVars>>

ExecInit ==
    /\ Runnable("init")
    /\ Finish("init", _initialize_node, FALSE)
    /\ UNCHANGED <<catalogSeen, callFault>>

ExecGate ==
    /\ Runnable("pdf_processor")
    /\ \E d \in {_process_pdf_node(r) : r \in GateResults} : Finish("pdf_processor", d, FALSE)
    /\ UNCHANGED <<catalogSeen, callFault>>

\* What the enablement check answered.
Seen(cat) == IF _should_execute_node(cat) THEN "enabled" ELSE "disabled"

SearchOutcomes(n) ==
    {[seen |-> Seen(cat), o |-> SearchNodeFn(n, cat, templateOk, resp)] :
        cat \in CatalogStates, templateOk \in BOOLEAN, resp \in SearchResponses}

ExecSearch(n) ==
    /\ Runnable(n)
    /\ \E x \in SearchOutcomes(n) :
         /\ Finish(n, x.o.delta, x.o.called)
         /\ catalogSeen' = [catalogSeen EXCEPT ![TaskOf(n)] = x.seen]
         /\ callFault' = [callFault EXCEPT ![TaskOf(n)] = x.o.fault]

DocOutcomes(n) ==
    {[seen |-> Seen(cat),
      o |-> DocNodeFn(n, cat, templateOk, resp, pdf_processed, pdf_chunks)] :
        cat \in CatalogStates, templateOk \in BOOLEAN, resp \in GeminiResponses}

ExecDoc(n) ==
    /\ Runnable(n)
    /\ \E x \in DocOutcomes(n) :
         /\ Finish(n, x.o.delta, x.o.called)
         /\ catalogSeen' = [catalogSeen EXCEPT ![TaskOf(n)] = x.seen]
         /\ callFault' = [callFault EXCEPT ![TaskOf(n)] = x.o.fault]

WriterOutcomes ==
    {_report_writer_node(outputs, errors, promptOk, tmpOk, resp, saveOk) :
        promptOk \in BOOLEAN, tmpOk \in BOOLEAN, saveOk \in BOOLEAN,
        resp \in GeminiResponses \ {"unreadable_pdf"}}

ExecWriter ==
    /\ Runnable("writer")
    /\ \E o \in WriterOutcomes : Finish("writer", o.delta, o.called)
    /\ UNCHANGED <<catalogSeen, callFault>>

\* End of a superstep: every scheduled node has returned.  The writes are
\* merged and the next step's nodes are those the step's nodes lead to; when
\* none is left invoke returns the state and run() builds its result.
ApplyWrites ==
    /\ pc = "invoke"
    /\ active # {}
    /\ DOMAIN writes = active
    /\ IF InvalidUpdate(writes)
       THEN /\ pc' = RunBoundary([raised |-> TRUE]).pc
            /\ result' = RunBoundary([raised |-> TRUE]).result
            /\ active' = {}
            /\ UNCHANGED <<pdf_processed, pdf_chunks, outputs, final_report, errors,
                           processing_status>>
       ELSE /\ errors' = MergeErrors(errors, writes, 1)
            /\ processing_status' = MergeStatus(processing_status, writes, 1)
            /\ pdf_processed' = LastValue(pdf_processed, writes, "pdf_processed")
            /\ pdf_chunks' = LastValue(pdf_chunks, writes, "pdf_chunks")
            /\ final_report' = LastValue(final_report, writes, "final_report")
            /\ outputs' = [t \in Tasks |-> LastValue(outputs[t], writes, t)]
            /\ active' = Triggered(active)
            /\ IF Triggered(active) = {}
               THEN LET done == RunBoundary([raised |-> FALSE,
                                 result |-> RunResult(final_report', errors',
                                                      processing_status', outputs')]) IN
                    /\ pc' = done.pc
                    /\ result' = done.result
               ELSE /\ pc' = "invoke"
                    /\ UNCHANGED result
    /\ writes' = EmptyDict
    /\ UNCHANGED <<execs, calls, catalogSeen, callFault, nonWorkflowVars>>

\* A fault raised inside invoke (by the graph library or the runtime) while
\* the graph executes: the state in flight is lost with it.
GraphFault ==
    /\ pc = "invoke"
    /\ pc' = RunBoundary([raised |-> TRUE]).pc
    /\ result' = RunBoundary([raised |-> TRUE]).result
    /\ active' = {}
    /\ writes' = EmptyDict
    /\ pdf_processed' = FALSE
    /\ pdf_chunks' = NoneVal
    /\ outputs' = initial_outputs
    /\ final_report' = NoReport
    /\ errors' = <<>>
    /\ processing_status' = EmptyDict
    /\ UNCHANGED <<execs, calls, catalogSeen, callFault, nonWorkflowVars>>

Next ==
    \/ RunStart
    \/ ExecInit
    \/ ExecGate
    \/ \E n \in {"node_company", "node_industry", "node_compliance", "node_news"} : ExecSearch(n)
    \/ \E n \in {"node_directors", "node_credit", "node_financial"} : ExecDoc(n)
    \/ ExecWriter
    \/ ApplyWrites

Spec == Init /\ [][Next]_vars

NextFault == Next \/ GraphFault

SpecFault == Init /\ [][NextFault]_vars

----------------------------------------------------------------------------
(* get_bookmark_ranges applied to a bookmark list and a page count *)

MaxBookmarks == 2

MaxPage == 3

BookmarkLists(titles, pages, maxLen) ==
    UNION {[1..n -> [title : titles, page : pages]] : n \in 0..maxLen}

\* The outline of the specification's example, one with headings of every
\* kind between its sections, one with two sections on the same page and
\* one whose first section starts after page 0.
ExampleInputs ==
    {[bookmarks |-> <<Bookmark(T_PROFILE, 0), Bookmark(T_DIRECTORS, 5),
                      Bookmark(T_RATING, 12), Bookmark(T_FINANCIALS, 30)>>,
      total_pages |-> 40],
     [bookmarks |-> <<Bookmark(T_RATING, 6), Bookmark(T_APPENDIX, 2),
                      Bookmark(T_SUBSECTION, 3), Bookmark(T_NOSPACE, 4),
                      Bookmark(T_PROFILE, 0), Bookmark(T_MIXED, 7),
                      Bookmark(T_UNNUMBERED, 8)>>,
      total_pages |-> 9],
     [bookmarks |-> <<Bookmark(T_DIRECTORS, 2), Bookmark(T_RATING, 2),
                      Bookmark(T_PROFILE, 0)>>,
      total_pages |-> 4],
     [bookmarks |-> <<Bookmark(T_RATING, 3), Bookmark(T_DIRECTORS, 1),
                      Bookmark(T_FINANCIALS, 2)>>,
      total_pages |-> 5]}

\* Page -1 is what the PDF library answers for a destination that is no page
\* of the document.
RangeInputs ==
    {[bookmarks |-> b, total_pages |-> t] :
        b \in BookmarkLists({T_DIRECTORS, T_RATING, T_APPENDIX}, (-1)..MaxPage, MaxBookmarks),
        t \in 0..(MaxPage + 1)}
    \cup ExampleInputs

InitRanges ==
    /\ SessionOff
    /\ EditOff
    /\ TaskOff
    /\ WorkflowIdle
    /\ \E in \in RangeInputs : bookmarks = in.bookmarks /\ total_pages = in.total_pages
    /\ ranges = <<>>
    /\ pdf_pc = "ranges_input"
    /\ clock = 0
    /\ files = EmptyDict
    /\ section_chunks = EmptyDict
    /\ extract_fault = EmptyDict
    /\ ReportOff
    /\ ParseOff
    /\ ConfigOff

ComputeRanges ==
    /\ pdf_pc = "ranges_input"
    /\ ranges' = get_bookmark_ranges(bookmarks, total_pages)
    /\ pdf_pc' = "ranges_done"
    /\ UNCHANGED <<nonPdfVars, bookmarks, total_pages, clock, files, section_chunks,
                   extract_fault>>

NextRanges == ComputeRanges

SpecRanges == InitRanges /\ [][NextRanges]_vars

----------------------------------------------------------------------------
(* Vocabulary of the range properties *)

\* The positions of the numbered all-capitals titles in the bookmark list.
CanonicalAt == {i \in DOMAIN bookmarks : bookmarks[i].title \in CanonicalTitles}

CanonicalPages == {bookmarks[i].page : i \in CanonicalAt}

Least(S) == CHOOSE x \in S : \A y \in S : x <= y

Greatest(S) == CHOOSE x \in S : \A y \in S : x >= y

\* The ranges holding page p.
RangesHolding(p) == {k \in DOMAIN ranges : ranges[k].start_page <= p /\ p <= ranges[k].end_page}

RangesSorted == \A k, l \in DOMAIN ranges : k < l => ranges[k].start_page < ranges[l].start_page

RangesContiguous ==
    \A k \in DOMAIN ranges : k < Len(ranges) => ranges[k].end_page + 1 = ranges[k + 1].start_page

\* C12: get_bookmark_ranges takes the canonical bookmarks in ascending page
\* order: each range starts on the page of a canonical bookmark whose title it
\* carries and ends on the page before the next canonical bookmark page, or
\* on page total_pages - 1 when there is none; every canonical page that
\* leaves room for a range starts exactly one; and canonical bookmarks at
\* pages 0, 5, 12 and 30 of a 40-page document give exactly (0,4), (5,11),
\* (12,29), (30,39), whose page counts sum to 40.
C12_RangesFollowBookmarks ==
    pdf_pc = "ranges_done" =>
        /\ RangesSorted
        /\ \A k \in DOMAIN ranges :
              LET r == ranges[k]
                  later == {p \in CanonicalPages : p > r.start_page}
              IN /\ \E i \in CanonicalAt :
                       bookmarks[i].title = r.title /\ bookmarks[i].page = r.start_page
                 /\ r.end_page = IF later = {} THEN total_pages - 1 ELSE Least(later) - 1
        /\ \A p \in CanonicalPages :
              (p < total_pages \/ \E q \in CanonicalPages : q > p) =>
                  Cardinality({k \in DOMAIN ranges : ranges[k].start_page = p}) = 1
        /\ (total_pages = 40 /\ CanonicalPages = {0, 5, 12, 30}) =>
              /\ ranges = <<[title |-> T_PROFILE, start_page |-> 0, end_page |-> 4,
                             page_count |-> 5],
                            [title |-> T_DIRECTORS, start_page |-> 5, end_page |-> 11,
                             page_count |-> 7],
                            [title |-> T_RATING, start_page |-> 12, end_page |-> 29,
                             page_count |-> 18],
                            [title |-> T_FINANCIALS, start_page |-> 30, end_page |-> 39,
                             page_count |-> 10]>>
              /\ ranges[1].page_count + ranges[2].page_count + ranges[3].page_count
                 + ranges[4].page_count = 40

C12_Witness ==
    /\ pdf_pc = "ranges_done"
    /\ total_pages = 40 /\ CanonicalPages = {0, 5, 12, 30}
    /\ Len(ranges) = 4

\* C13 (as claimed): a non-empty result is sorted by start_page, contiguous,
\* and covers every page from 0 to total_pages - 1 exactly once.
C13_RangesCoverWholeDocument ==
    (pdf_pc = "ranges_done" /\ ranges # <<>>) =>
        /\ RangesSorted
        /\ RangesContiguous
        /\ \A p \in 0..(total_pages - 1) : Cardinality(RangesHolding(p)) = 1

\* The last page the ranges reach: the document's last page, or the page
\* before a last canonical bookmark that lies beyond the document.
LastCovered ==
    IF Greatest(CanonicalPages) < total_pages THEN total_pages - 1
    ELSE Greatest(CanonicalPages) - 1

\* C13 (amended): a non-empty result is sorted by start_page, contiguous, and
\* covers exactly once every page from the first canonical bookmark's page to
\* total_pages - 1 (to the page before the last canonical bookmark when that
\* bookmark lies at or beyond total_pages); the pages before the first
\* canonical bookmark are in no range.
C13_RangesCoverFromFirstSection ==
    (pdf_pc = "ranges_done" /\ ranges # <<>>) =>
        /\ RangesSorted
        /\ RangesContiguous
        /\ ranges[1].start_page = Least(CanonicalPages)
        /\ ranges[Len(ranges)].end_page = LastCovered
        /\ \A p \in (-1)..(MaxPage + total_pages) :
              Cardinality(RangesHolding(p)) =
                 IF Least(CanonicalPages) <= p /\ p <= LastCovered THEN 1 ELSE 0

\* Three sections, the first of which starts after page 0.
C13_Witness ==
    /\ pdf_pc = "ranges_done"
    /\ Len(ranges) = 3
    /\ ranges[1].start_page = 1
    /\ ranges[3].end_page = total_pages - 1

\* C14: every returned range has end_page >= start_page and page_count =
\* end_page - start_page + 1 >= 1; a canonical bookmark whose computed range
\* is empty (it shares its page with the next one, or is the last and lies
\* beyond the document) has no range in the result.
C14_RangesAreNonEmpty ==
    pdf_pc = "ranges_done" =>
        /\ \A k \in DOMAIN ranges :
              /\ ranges[k].end_page >= ranges[k].start_page
              /\ ranges[k].page_count = ranges[k].end_page - ranges[k].start_page + 1
              /\ ranges[k].page_count >= 1
        /\ Len(ranges) <= Cardinality(CanonicalPages)
        /\ (CanonicalAt # {} /\ Greatest(CanonicalPages) >= total_pages) =>
              Len(ranges) = Cardinality(CanonicalPages) - 1

\* Two canonical bookmarks share a page and one range is returned for it.
C14_Witness ==
    /\ pdf_pc = "ranges_done"
    /\ \E i, j \in CanonicalAt :
          /\ i # j /\ bookmarks[i].page = bookmarks[j].page
          /\ Cardinality({k \in DOMAIN ranges : ranges[k].start_page = bookmarks[i].page}) = 1
    /\ Len(ranges) = 2

\* The bookmark list without its non-canonical entries.
CanonicalOnly == SelectSeq(bookmarks, LAMBDA b : b.title \in CanonicalTitles)

\* C15: no returned range carries a title that fails the canonical pattern
\* (digits, a period, whitespace, capitals and spaces), such as 'Appendix A',
\* and no such bookmark acts as a section boundary: the result is the one
\* the list gives with those bookmarks removed.
C15_OnlyCanonicalTitles ==
    pdf_pc = "ranges_done" =>
        /\ \A k \in DOMAIN ranges :
              /\ ranges[k].title \in CanonicalTitles
              /\ ranges[k].title \notin NonCanonicalTitles
              /\ ranges[k].start_page \in CanonicalPages
              /\ ranges[k].end_page + 1 \in CanonicalPages \cup {total_pages}
        /\ ranges = get_bookmark_ranges(CanonicalOnly, total_pages)

\* Headings of every non-canonical kind lie inside the first of two sections.
C15_Witness ==
    /\ pdf_pc = "ranges_done"
    /\ NonCanonicalTitles \subseteq {bookmarks[i].title : i \in DOMAIN bookmarks}
    /\ Len(ranges) = 2
    /\ ranges[1].page_count = 6

----------------------------------------------------------------------------
(* process_pdf on one document: the three extract_pdf_section calls *)

MaxOutline == 2

MaxDocPages == 2

MaxClock == 1

\* Documents with every section a keyword asks for, of equal and of
\* different lengths.
ExampleDocs ==
    {[bookmarks |-> <<Bookmark(T_PROFILE, 0), Bookmark(T_DIRECTORS, 1),
                      Bookmark(T_OPERATING, 3), Bookmark(T_RATING, 5),
                      Bookmark(T_FINANCIALS, 7)>>,
      total_pages |-> 9],
     [bookmarks |-> <<Bookmark(T_APPENDIX, 0), Bookmark(T_DIRECTORS, 1),
                      Bookmark(T_SUBSECTION, 2), Bookmark(T_RATING, 4),
                      Bookmark(T_FINANCIALS, 5)>>,
      total_pages |-> 6]}

\* The bookmarks of a document point at pages of the document.
Docs ==
    {[bookmarks |-> b, total_pages |-> t] :
        t \in 1..MaxDocPages,
        b \in BookmarkLists({T_DIRECTORS, T_RATING, T_APPENDIX},
                            0..(MaxDocPages - 1), MaxOutline)}

ValidDoc(d) == \A i \in DOMAIN d.bookmarks : d.bookmarks[i].page < d.total_pages

InitExtract ==
    /\ SessionOff
    /\ EditOff
    /\ TaskOff
    /\ WorkflowIdle
    /\ \E d \in {x \in Docs : ValidDoc(x)} \cup ExampleDocs :
          /\ bookmarks = d.bookmarks
          /\ total_pages = d.total_pages
          /\ files = (pdf_path :> SourcePages(d.total_pages))
    /\ ranges = <<>>
    /\ pdf_pc = "start"
    /\ clock = 0
    /\ section_chunks = EmptyDict
    /\ extract_fault = EmptyDict
    /\ ReportOff
    /\ ParseOff
    /\ ConfigOff

\* process_pdf finds the document, or returns its failure.
ProcessPdfBegin ==
    /\ pdf_pc = "start"
    /\ \E exists \in BOOLEAN : pdf_pc' = IF exists THEN ChunkKeys[1] ELSE "failed"
    /\ UNCHANGED <<nonPdfVars, bookmarks, total_pages, ranges, clock, files,
                   section_chunks, extract_fault>>

NextKey(key) ==
    CASE key = "directors" -> "rating"
      [] key = "rating"    -> "financials"
      [] OTHER             -> "returned"

ExtractOutcomes(key) ==
    {[fault |-> f # "none",
      out |-> extract_pdf_section(files, bookmarks, total_pages, section_keyword(key), clock, f)] :
        f \in ExtractFaults}

\* One entry of the pdf_chunks dictionary is computed.
ExtractSection ==
    /\ pdf_pc \in {ChunkKeys[i] : i \in DOMAIN ChunkKeys}
    /\ \E x \in ExtractOutcomes(pdf_pc) :
          /\ files' = x.out.fs
          /\ section_chunks' = (pdf_pc :> x.out.path) @@ section_chunks
          /\ extract_fault' = (pdf_pc :> x.fault) @@ extract_fault
    /\ pdf_pc' = NextKey(pdf_pc)
    /\ UNCHANGED <<nonPdfVars, bookmarks, total_pages, ranges, clock>>

\* A second passes while the document is processed.
Tick ==
    /\ pdf_pc \in {ChunkKeys[i] : i \in DOMAIN ChunkKeys}
    /\ clock < MaxClock
    /\ clock' = clock + 1
    /\ UNCHANGED <<nonPdfVars, bookmarks, total_pages, ranges, pdf_pc, files,
                   section_chunks, extract_fault>>

NextExtract == ProcessPdfBegin \/ ExtractSection \/ Tick

SpecExtract == InitExtract /\ [][NextExtract]_vars

----------------------------------------------------------------------------
(* Vocabulary of the extraction properties *)

\* The ranges of the document at hand.
DocRanges == get_bookmark_ranges(bookmarks, total_pages)

\* The ranges whose title holds the keyword of a chunk key, whatever the case.
Hits(key) ==
    {k \in DOMAIN DocRanges :
        Contains(upper(DocRanges[k].title), upper(section_keyword(key)))}

\* The source pages start_page..end_page of a range, in order.
PagesOf(r) == [i \in 1..(r.end_page - r.start_page + 1) |-> r.start_page + i - 1]

Extracted(key) == key \in DOMAIN section_chunks /\ section_chunks[key] # pdf_path

\* C16: extract_pdf_section never raises and returns the original pdf_path
\* whenever the PDF library is missing, the document cannot be read, has no
\* outline, has no canonical section (no ranges), has no page count, no
\* section title holds the keyword, or the sub-document cannot be written;
\* process_pdf then returns all three entries and the document is untouched.
C16_ExtractFallsBackToSource ==
    /\ pdf_pc \in {"start", "failed", "directors", "rating", "financials", "returned"}
    /\ pdf_pc = "returned" => DOMAIN section_chunks = {"directors", "rating", "financials"}
    /\ files[pdf_path] = SourcePages(total_pages)
    /\ \A key \in DOMAIN section_chunks :
          (\/ extract_fault[key]
           \/ bookmarks = <<>>
           \/ CanonicalAt = {}
           \/ DocRanges = <<>>
           \/ Hits(key) = {}) => section_chunks[key] = pdf_path

\* The directors section was extracted, the write of the rating section
\* failed and no section is about financials.
C16_Witness ==
    /\ pdf_pc = "returned"
    /\ Extracted("directors")
    /\ extract_fault["rating"] /\ Hits("rating") # {} /\ section_chunks["rating"] = pdf_path
    /\ ~extract_fault["financials"] /\ section_chunks["financials"] = pdf_path

\* C17: when the title of at least one range holds the keyword (in any case)
\* and nothing fails, the call returns a new document, whose content when the
\* call returns is exactly the pages start_page..end_page of the first such
\* range in ascending start_page order, with no page of any other range; a
\* new document is returned in no other case.
C17_ExtractReturnsFirstMatch ==
    [][\A key \in DOMAIN section_chunks' \ DOMAIN section_chunks :
          /\ (Hits(key) # {} /\ ~extract_fault'[key]) <=> section_chunks'[key] # pdf_path
          /\ section_chunks'[key] # pdf_path =>
                LET first == DocRanges[Least(Hits(key))]
                    content == files'[section_chunks'[key]]
                IN /\ \A k \in Hits(key) : first.start_page <= DocRanges[k].start_page
                   /\ content = PagesOf(first)
                   /\ \A k \in DOMAIN DocRanges \ {Least(Hits(key))} :
                         \A i \in DOMAIN content :
                            ~(DocRanges[k].start_page <= content[i]
                              /\ content[i] <= DocRanges[k].end_page)]_vars

\* The keyword RATING is first met in the title 3. OPERATING.
C17_Witness ==
    /\ Extracted("rating")
    /\ Cardinality(Hits("rating")) = 2
    /\ files[section_chunks["rating"]] = <<3, 4>>

\* C18: every extract call that returns a new document has an artifact of
\* its own: its path differs from the source's and from the path of every
\* other call, its content stays what the call wrote, and the source
\* document is never modified.
C18_ArtifactsAreFresh ==
    /\ files[pdf_path] = SourcePages(total_pages)
    /\ \A key \in DOMAIN section_chunks :
          Extracted(key) =>
             /\ \A other \in DOMAIN section_chunks \ {key} :
                   section_chunks[other] # section_chunks[key]
             /\ files[section_chunks[key]] = PagesOf(DocRanges[Least(Hits(key))])

----------------------------------------------------------------------------
(* Vocabulary of the properties *)

\* Number of entries of a log that node or task id appended.
CountBy(log, id) == Cardinality({i \in DOMAIN log : log[i].node = id})

\* Number of occurrences of an entry in a log.
Occurs(log, e) == Cardinality({i \in DOMAIN log : log[i] = e})

\* The task's node has run and the step it ran in has been merged.
Settled(t) == execs[NodeOf(t)] > 0 /\ NodeOf(t) \notin DOMAIN writes

GateSucceeded == pdf_processed

----------------------------------------------------------------------------
\* C1: the writer does not start until all seven analysis tasks have reached a
\* terminal status (completed, failed or skipped).
C1_SinkWaitsForAllTasks ==
    execs["writer"] > 0 => \A t \in Tasks : Status(t) \in Terminal

\* C2: a task that is disabled in the prompt catalog when it runs returns only
\* its skipped status, makes no external call, appends nothing to the error
\* log (also when the extraction gate failed), and its output slot is unset
\* in the state and in the result of the run.
C2_DisabledTaskIsSkipped ==
    \A t \in Tasks :
        catalogSeen[t] = "disabled" =>
            /\ calls[NodeOf(t)] = 0
            /\ CountBy(errors, t) = 0
            /\ outputs[t] = NoneVal
            /\ NodeOf(t) \in DOMAIN writes => writes[NodeOf(t)] = StatusDelta(t, "skipped")
            /\ Settled(t) => Status(t) = "skipped"
            /\ pc = "returned" =>
                  /\ result.processing_status[t] = "skipped"
                  /\ result.outputs[t] = NoneVal
                  /\ CountBy(result.errors, t) = 0

C2_Witness ==
    /\ pc = "returned"
    /\ ~pdf_processed
    /\ catalogSeen["credit_rating"] = "disabled"
    /\ catalogSeen["news_checks"] = "disabled"
    /\ catalogSeen["financials"] = "enabled"

\* C3: with all tasks enabled and the extraction gate failed, each document
\* task ends skipped with exactly one error and no external call, each search
\* task ends completed or failed, and the run returns a report.
C3_GateFailureSkipsDocTasks ==
    (pc = "returned" /\ ~pdf_processed /\ \A t \in Tasks : catalogSeen[t] = "enabled") =>
        /\ \A t \in DocTasks :
              /\ result.processing_status[t] = "skipped"
              /\ CountBy(result.errors, t) = 1
              /\ calls[NodeOf(t)] = 0
        /\ \A t \in SearchTasks : result.processing_status[t] \in {"completed", "failed"}
        /\ result.report.kind # "None"

\* C4: a document task that is enabled and whose extraction gate succeeded ends
\* failed with exactly one error and an unset slot when its call returns an
\* empty or failed response, times out, or an exception is raised in the task,
\* and ends completed with the returned text in its slot when the call returns
\* non-empty text.
C4_DocTaskOutcome ==
    \A t \in DocTasks :
        (Settled(t) /\ catalogSeen[t] = "enabled" /\ GateSucceeded) =>
            IF calls[NodeOf(t)] = 1 /\ ~callFault[t]
            THEN /\ Status(t) = "completed"
                 /\ outputs[t] = "text"
                 /\ CountBy(errors, t) = 0
            ELSE /\ Status(t) = "failed"
                 /\ outputs[t] = NoneVal
                 /\ CountBy(errors, t) = 1

C4_Witness ==
    /\ Settled("financials") /\ catalogSeen["financials"] = "enabled"
    /\ callFault["financials"] /\ Status("financials") = "failed"
    /\ Settled("credit_rating") /\ catalogSeen["credit_rating"] = "enabled"
    /\ calls["node_credit"] = 0 /\ Status("credit_rating") = "failed"
    /\ Settled("promoters_directors") /\ Status("promoters_directors") = "completed"

\* C5: an enabled search task whose external call times out or fails ends
\* failed, with exactly one error appended and its output slot unset.
C5_SearchFaultFailsTask ==
    \A t \in SearchTasks :
        (Settled(t) /\ callFault[t]) =>
            /\ Status(t) = "failed"
            /\ CountBy(errors, t) = 1
            /\ outputs[t] = NoneVal

\* C6: run never raises past its boundary; whatever the tasks did and whatever
\* fault invoke raised, it returns a result holding success, report and errors.
C6_RunAlwaysReturnsResult ==
    /\ pc \in {"idle", "invoke", "returned"}
    /\ pc = "returned" =>
          /\ {"success", "report", "errors"} \subseteq DOMAIN result
          /\ result.success \in BOOLEAN
          /\ ~result.success => (result.report = NoReport /\ Len(result.errors) = 1)
          /\ result.success => result.report = final_report /\ result.errors = errors

C6_Witness ==
    /\ pc = "returned" /\ ~result.success
    /\ execs["node_company"] = 1 /\ execs["pdf_processor"] = 1

\* Node invocations so far.
TotalExecs ==
    execs["init"] + execs["pdf_processor"] + execs["node_company"] + execs["node_industry"]
    + execs["node_directors"] + execs["node_credit"] + execs["node_financial"]
    + execs["node_compliance"] + execs["node_news"] + execs["writer"]

\* Steps taken so far: it grows with every step of a run and is bounded.
RunProgress ==
    (IF pc = "idle" THEN 0 ELSE 1) + (IF pc = "returned" THEN 1 ELSE 0)
    + 2 * TotalExecs - Cardinality(DOMAIN writes)

MaxRunProgress == 2 * (Cardinality(Nodes) + 1) + 2

\* C7: every run terminates, given that each external call returns or times
\* out: until run has returned a step is always possible, every step advances
\* a bounded measure of progress, and when run has returned each of the seven
\* tasks has a terminal status (none is left pending or running), whichever
\* tasks or the extraction gate failed.
C7_RunTerminatesAllTerminal ==
    /\ [](pc = "returned" \/ ENABLED Next)
    /\ [][RunProgress' > RunProgress]_vars
    /\ [](RunProgress <= MaxRunProgress)
    /\ [](pc = "returned" =>
            \A t \in Tasks :
                /\ t \in DOMAIN result.processing_status
                /\ result.processing_status[t] \in Terminal
                /\ Status(t) = result.processing_status[t])

C7_Witness ==
    /\ pc = "returned"
    /\ ~pdf_processed
    /\ result.processing_status["financials"] = "failed"
    /\ result.processing_status["company_overview"] = "failed"
    /\ result.processing_status["news_checks"] = "completed"

\* The step's nodes have all returned and their writes are merged next.
StepEnds == pc = "invoke" /\ active # {} /\ DOMAIN writes = active

\* C8: when the nodes of a step have completed concurrently, the merged state
\* holds every error entry and every status entry each of them returned: none
\* is lost or overwritten, whatever the order in which they completed.
C8_MergeKeepsEveryContribution ==
    [][StepEnds =>
         \A n \in DOMAIN writes :
            /\ "errors" \in DOMAIN writes[n] =>
                  \A i \in DOMAIN writes[n]["errors"] :
                     LET e == writes[n]["errors"][i] IN
                     Occurs(errors', e) = Occurs(errors, e) + Occurs(writes[n]["errors"], e)
            /\ "processing_status" \in DOMAIN writes[n] =>
                  \A k \in DOMAIN writes[n]["processing_status"] :
                     /\ k \in DOMAIN processing_status'
                     /\ processing_status'[k] = writes[n]["processing_status"][k]]_vars

\* Three tasks that ran in the same step each contributed one error and a status.
C8_Witness ==
    /\ pc = "invoke" /\ active = {"writer"} /\ writes = EmptyDict
    /\ \A t \in DocTasks : Status(t) = "failed" /\ CountBy(errors, t) = 1
    /\ Len(errors) >= 4

\* C9: the dictionary an analysis node returns holds only its own output slot,
\* its own status key and error entries; the writer returns only the final
\* report and error entries.
C9_NodesWriteOnlyTheirOwnKeys ==
    /\ \A n \in DOMAIN writes \cap AnalysisNodes :
          /\ DOMAIN writes[n] \subseteq {TaskOf(n), "processing_status", "errors"}
          /\ "processing_status" \in DOMAIN writes[n] =>
                DOMAIN writes[n]["processing_status"] \subseteq {TaskOf(n)}
    /\ "writer" \in DOMAIN writes =>
          DOMAIN writes["writer"] \subseteq {"final_report", "errors"}

C9_Witness ==
    /\ "writer" \in DOMAIN writes
    /\ "node_directors" \in DOMAIN writes
    /\ "promoters_directors" \in DOMAIN writes["node_directors"]
    /\ "node_credit" \in DOMAIN writes
    /\ "errors" \in DOMAIN writes["node_credit"]

\* C10: each analysis task runs at most once in a run and makes at most one
\* external call; once its status is terminal the status and the output slot
\* never change, and every task is terminal when the run returns.
C10_TasksAreOneShot ==
    [][/\ \A n \in AnalysisNodes : execs'[n] <= 1 /\ calls'[n] <= 1
       /\ \A t \in Tasks :
             Status(t) \in Terminal =>
                 /\ t \in DOMAIN processing_status'
                 /\ processing_status'[t] = Status(t)
                 /\ outputs'[t] = outputs[t]
       /\ (pc' = "returned" /\ pc = "invoke") =>
             \A t \in Tasks : /\ t \in DOMAIN processing_status'
                              /\ processing_status'[t] \in Terminal
                              /\ execs[NodeOf(t)] = 1]_vars

C10_Witness ==
    /\ pc = "returned"
    /\ \A n \in AnalysisNodes : execs[n] = 1
    /\ calls["node_company"] = 1 /\ calls["node_financial"] = 1
    /\ calls["node_news"] = 0

\* The step changes the status of task t from a to b.
StatusStep(t, a, b) == Status(t) = a /\ Status(t)' = b

\* C11 (as claimed): each task's status starts as pending after init and
\* changes only along pending -> running -> completed, failed or skipped: a
\* task that made an external call is recorded as running between pending
\* and its terminal status, and the values are drawn from those five.
C11_StatusPassesThroughRunning ==
    [][\/ pc' = "returned" /\ ~result'.success
       \/ \A t \in Tasks :
             /\ Status(t)' \in {"absent", "pending", "running"} \cup Terminal
             /\ Status(t)' # Status(t) =>
                   \/ StatusStep(t, "absent", "pending")
                   \/ StatusStep(t, "pending", "running")
                   \/ Status(t) = "running" /\ Status(t)' \in Terminal
                   \/ /\ Status(t) = "pending" /\ Status(t)' \in Terminal
                      /\ calls[NodeOf(t)] = 0]_vars

\* C11 (amended): when init's step is merged every task's status is pending;
\* from then on a status changes once, directly from pending to completed,
\* failed or skipped when the step of the task's node is merged, also for a
\* task that made an external call; running is never recorded, and the state
\* is given up as a whole only when invoke raises.
C11_StatusPendingThenTerminal ==
    [][\/ pc' = "returned" /\ ~result'.success
       \/ \A t \in Tasks :
             /\ Status(t)' \in {"absent", "pending"} \cup Terminal
             /\ (execs["init"] > 0 /\ "init" \notin DOMAIN writes') => Status(t)' # "absent"
             /\ Status(t)' # Status(t) =>
                   \/ /\ StatusStep(t, "absent", "pending")
                      /\ "init" \in DOMAIN writes
                   \/ /\ Status(t) = "pending" /\ Status(t)' \in Terminal
                      /\ NodeOf(t) \in DOMAIN writes]_vars

\* A task that made its external call has gone from pending to completed.
C11_Witness ==
    /\ pc = "invoke"
    /\ calls["node_company"] = 1 /\ Status("company_overview") = "completed"
    /\ Status("promoters_directors") = "pending"

----------------------------------------------------------------------------
(* _create_consolidated_markdown_report applied to a dictionary of outputs *)

\* What a key of node_results may hold: nothing (the key is missing), None,
\* an empty text, a text, or a text that begins with its section's header.
OutputKinds == {"absent", "none", "empty", "text", "headed"}

StoredOutput(key, kind) ==
    CASE kind = "none"   -> NoneVal
      [] kind = "empty"  -> ""
      [] kind = "text"   -> "text"
      [] kind = "headed" -> HeadedText(key)

NodeResultsOf(choice) ==
    [k \in {t \in Tasks : choice[t] # "absent"} |-> StoredOutput(k, choice[k])]

InitReport ==
    /\ SessionOff
    /\ EditOff
    /\ TaskOff
    /\ WorkflowIdle
    /\ PdfOff
    /\ ParseOff
    /\ ConfigOff
    /\ \E choice \in [Tasks -> OutputKinds] : node_results = NodeResultsOf(choice)
    /\ markdown_report = NoReport

AssembleReport ==
    /\ markdown_report = NoReport
    /\ markdown_report' = _create_consolidated_markdown_report(node_results)
    /\ UNCHANGED <<nonReportVars, node_results>>

NextReport == AssembleReport

SpecReport == InitReport /\ [][NextReport]_vars

\* The block is, or begins with, the header line of the section.
BearsHeader(block, key) == block = section_header(key) \/ block = HeadedText(key)

IsHeaderBlock(block) == \E key \in Tasks : BearsHeader(block, key)

\* The blocks of the report that bear a section header, in the report's order.
HeaderBlocks == SelectSeq(markdown_report.content, IsHeaderBlock)

Stored(key) ==
    key \in DOMAIN node_results /\ node_results[key] # NoneVal /\ node_results[key] # ""

Placeholder == "*No data available for this section.*"

\* C19: the concatenated report has exactly seven section headers, those of
\* 1. Company & Business Overview to 7. News & Media Analysis in this order,
\* each followed by (or part of) the stored output of its task when that is
\* present and non-empty and by the placeholder otherwise; it is produced for
\* every combination of missing, None, empty and non-empty outputs.
C19_FallbackReportHasSevenSections ==
    markdown_report # NoReport =>
        LET content == markdown_report.content
            headers == HeaderBlocks
        IN
        /\ markdown_report.kind = "markdown_report"
        /\ Len(headers) = 7
        /\ \A i \in 1..7 : BearsHeader(headers[i], SectionOrder[i])
        /\ \A p \in DOMAIN content : \A key \in Tasks :
              BearsHeader(content[p], key) =>
                 IF Stored(key)
                 THEN \/ content[p] = node_results[key]
                      \/ content[p] = section_header(key) /\ content[p + 1] = node_results[key]
                 ELSE content[p] = section_header(key) /\ content[p + 1] = Placeholder
        /\ Cardinality({p \in DOMAIN content : content[p] = Placeholder})
              = Cardinality({key \in Tasks : ~Stored(key)})
        /\ SectionOrder = <<"company_overview", "industry_overview", "promoters_directors",
                            "credit_rating", "financials", "compliance_checks", "news_checks">>

\* Only the first two outputs are stored: sections 3 to 7 hold the placeholder.
C19_Witness ==
    /\ markdown_report # NoReport
    /\ Stored("company_overview") /\ node_results["company_overview"] = "text"
    /\ Stored("industry_overview")
    /\ node_results["industry_overview"] = HeadedText("industry_overview")
    /\ \A key \in {"promoters_directors", "credit_rating", "financials",
                   "compliance_checks", "news_checks"} : ~Stored(key)
    /\ "credit_rating" \notin DOMAIN node_results
    /\ node_results["financials"] = ""

----------------------------------------------------------------------------
(* The sink's check for insufficient data *)

FoundationalOutputs == {"company_overview", "industry_overview", "promoters_directors"}

\* The foundational outputs that are populated in the state the nodes of the
\* current step read.
PopulatedFoundational == {t \in FoundationalOutputs : Truthy(outputs[t])}

\* The step is an execution of the sink's function.
WriterRuns == "writer" \notin DOMAIN writes /\ "writer" \in DOMAIN writes'

\* The sink returned the error report and made no call to the collaborator;
\* the concatenated report is not what it returned.
WriterGaveUp ==
    /\ writes'["writer"]["final_report"].kind = "error_report"
    /\ calls'["writer"] = calls["writer"]

\* C20 as stated: if fewer than three of the foundational outputs are
\* populated when the sink runs, it emits the error report and attempts
\* neither the primary call nor the concatenation.
C20_ErrorReportBelowThree ==
    [][WriterRuns /\ Cardinality(PopulatedFoundational) < 3 => WriterGaveUp]_vars

\* C20 amended: if none of the three foundational outputs is populated when
\* the sink runs, it emits the error report and attempts neither the primary
\* call nor the concatenation.
C20_ErrorReportWhenNoneFoundational ==
    [][WriterRuns /\ PopulatedFoundational = {} => WriterGaveUp]_vars

\* The sink has run on a state that holds a compliance output and none of
\* the foundational ones, and returned the error report.
C20_Witness ==
    /\ "writer" \in DOMAIN writes
    /\ PopulatedFoundational = {}
    /\ Truthy(outputs["compliance_checks"])
    /\ writes["writer"]["final_report"].kind = "error_report"
    /\ calls["writer"] = 0

----------------------------------------------------------------------------
(* What the sink returns when it has data to consolidate *)

\* The report the sink's execution returned.
WriterReport == writes'["writer"]["final_report"]

\* The sections of a concatenated report whose output is absent hold the
\* placeholder right after their header.
AbsentSectionsHold(report, outs) ==
    \A t \in Tasks : ~Truthy(outs[t]) =>
        \E p \in DOMAIN report.content :
            /\ report.content[p] = section_header(t)
            /\ p + 1 \in DOMAIN report.content
            /\ report.content[p + 1] = Placeholder

\* C21: when exactly two of the three foundational outputs are populated the
\* sink does not return the error report: it returns the collaborator's
\* report or the concatenated one, the latter with the placeholder in the
\* sections whose output is absent.
C21_TwoFoundationalGiveReport ==
    [][WriterRuns /\ Cardinality(PopulatedFoundational) = 2 =>
          /\ WriterReport.kind \in {"llm_report", "markdown_report"}
          /\ WriterReport.kind = "markdown_report" => AbsentSectionsHold(WriterReport, outputs)
      ]_vars

\* The sink's execution appended nothing to the error log.
WriterLogsNothing ==
    "errors" \notin DOMAIN writes'["writer"] \/ writes'["writer"]["errors"] = <<>>

\* C22: when there is data to consolidate and the sink does not return the
\* collaborator's report (the response was empty, the call failed, or an
\* exception came up while preparing or making the call), it returns the
\* concatenated report and appends nothing to the error log.
C22_PrimaryFailureFallsBack ==
    [][WriterRuns /\ ~insufficient_data(outputs) /\ WriterReport.kind # "llm_report" =>
          WriterReport.kind = "markdown_report" /\ WriterLogsNothing
      ]_vars

----------------------------------------------------------------------------
(* The shape of the task graph and the order of starts *)

Successors(S) == {n \in Nodes : \E m \in S : <<m, n>> \in Edges}

\* The nodes reached from S in one to k edges.
RECURSIVE ReachedIn(_, _)
ReachedIn(S, k) ==
    IF k = 0 THEN {} ELSE Successors(S) \cup ReachedIn(Successors(S), k - 1)

Descendants(n) == ReachedIn({n}, Cardinality(Nodes))

Predecessors(n) == {m \in Nodes : <<m, n>> \in Edges}

GraphIsAcyclic == \A n \in Nodes : n \notin Descendants(n)

\* init is the only node without a predecessor and every node is reached from it.
SingleEntry ==
    /\ {n \in Nodes : Predecessors(n) = {}} = {"init"}
    /\ Descendants("init") = Nodes \ {"init"}

\* writer is the only node that leads to END, and the only one without a
\* successor among the nodes; every other node reaches it.
SingleSink ==
    /\ {n \in Nodes : <<n, "END">> \in Edges} = {"writer"}
    /\ {n \in Nodes : Successors({n}) = {}} = {"writer"}
    /\ \A n \in Nodes \ {"writer"} : "writer" \in Descendants(n)

Started(n) == execs[n] > 0

\* The node has run and the step it ran in has been merged.
Completed(n) == execs[n] > 0 /\ n \notin DOMAIN writes /\ (n \in active => n = "writer")

SearchNodes == {NodeOf(t) : t \in SearchTasks}

DocNodes == {NodeOf(t) : t \in DocTasks}

\* C23: the task graph is acyclic with the single entry init and the single
\* sink writer; the four independent tasks and the extraction gate start only
\* after init has completed (its step merged), and the three
\* document-dependent tasks only after the extraction gate has completed, the
\* predecessors of each being exactly those.
C23_TasksStartAfterPredecessors ==
    /\ GraphIsAcyclic
    /\ SingleEntry
    /\ SingleSink
    /\ \A n \in SearchNodes \cup {"pdf_processor"} :
          /\ Predecessors(n) = {"init"}
          /\ (Started(n) \/ n \in active) => Completed("init")
    /\ \A n \in DocNodes :
          /\ Predecessors(n) = {"pdf_processor"}
          /\ (Started(n) \/ n \in active) => Completed("pdf_processor") /\ Completed("init")

\* The document-dependent tasks and the independent ones have all run.
C23_Witness ==
    /\ \A n \in AnalysisNodes \cup {"pdf_processor", "init"} : Started(n)
    /\ "node_directors" \in DOMAIN writes
    /\ Completed("pdf_processor")

----------------------------------------------------------------------------
(* parse_outline_recursive applied to an outline *)

MaxItems == 2

\* The interpreter's limit on nested calls, counted from the outermost
\* parse_outline_recursive.
RecursionLimit == 3

\* The list objects of an outline: the one handed to the function and one more.
ListIds == {1, 2}

\* What a slot of a list holds: a destination with a plain title, one whose
\* title has white space around it, one that cannot be resolved, or a list.
SlotKinds ==
    {[kind |-> k, ref |-> 0] : k \in {"dest", "padded", "bad"}}
    \cup {[kind |-> "list", ref |-> l] : l \in ListIds}

\* The page of the destination in slot j of list l: every slot has its own.
SlotPage(l, j) == (l - 1) * MaxItems + (j - 1)

PaddedTitle == <<" ">> \o T_RATING \o <<"\n">>

ItemAt(l, j, slot) ==
    CASE slot.kind = "list"   -> ListItem(slot.ref)
      [] slot.kind = "padded" -> DestItem(PaddedTitle, SlotPage(l, j), TRUE)
      [] slot.kind = "bad"    -> DestItem(T_DIRECTORS, SlotPage(l, j), FALSE)
      [] OTHER                -> DestItem(T_DIRECTORS, SlotPage(l, j), TRUE)

SlotLists == UNION {[1..n -> SlotKinds] : n \in 0..MaxItems}

Outlines ==
    {[l \in ListIds |-> [j \in DOMAIN shape[l] |-> ItemAt(l, j, shape[l][j])]] :
        shape \in [ListIds -> SlotLists]}

InitParse ==
    /\ SessionOff
    /\ EditOff
    /\ TaskOff
    /\ WorkflowIdle
    /\ PdfOff
    /\ ReportOff
    /\ ConfigOff
    /\ outline \in Outlines
    /\ stack = <<Frame(1, 1, <<>>)>>
    /\ parsed = <<>>
    /\ parse_pc = "parsing"

TopFrame == stack[Len(stack)]

\* The item the running frame is at, if its loop has not ended.
AtItem == parse_pc = "parsing" /\ TopFrame.i <= Len(outline[TopFrame.list])

CurrentItem == outline[TopFrame.list][TopFrame.i]

\* An individual bookmark: appended, or skipped when it cannot be parsed.
ParseLeaf ==
    /\ AtItem
    /\ CurrentItem.kind = "dest"
    /\ stack' = [stack EXCEPT ![Len(stack)] =
                    Frame(@.list, @.i + 1, @.bookmarks \o parse_leaf(CurrentItem))]
    /\ UNCHANGED <<nonParseVars, outline, parsed, parse_pc>>

\* A nested list: the function calls itself.  At the interpreter's limit the
\* call raises in the calling frame, whose except clause ends its loop.
ParseNested ==
    /\ AtItem
    /\ CurrentItem.kind = "list"
    /\ IF Len(stack) < RecursionLimit
       THEN stack' = Append(stack, Frame(CurrentItem.ref, 1, <<>>))
       ELSE stack' = [stack EXCEPT ![Len(stack)] =
                         Frame(@.list, Len(outline[@.list]) + 1, @.bookmarks)]
    /\ UNCHANGED <<nonParseVars, outline, parsed, parse_pc>>

\* return bookmarks: to the calling frame, which extends its own list with
\* them, or to the caller of the outermost call.
ParseReturn ==
    /\ parse_pc = "parsing"
    /\ TopFrame.i > Len(outline[TopFrame.list])
    /\ IF Len(stack) = 1
       THEN /\ parsed' = TopFrame.bookmarks
            /\ parse_pc' = "done"
            /\ stack' = <<>>
       ELSE /\ stack' = [SubSeq(stack, 1, Len(stack) - 1) EXCEPT ![Len(stack) - 1] =
                            Frame(@.list, @.i + 1, extend(@.bookmarks, TopFrame.bookmarks))]
            /\ UNCHANGED <<parsed, parse_pc>>
    /\ UNCHANGED <<nonParseVars, outline>>

NextParse == ParseLeaf \/ ParseNested \/ ParseReturn

SpecParse == InitParse /\ [][NextParse]_vars

\* The number of slots that hold list l as a nested list.
TimesNested(l) ==
    Cardinality({x \in ListIds \X (1..MaxItems) :
        /\ x[2] \in DOMAIN outline[x[1]]
        /\ outline[x[1]][x[2]].kind = "list"
        /\ outline[x[1]][x[2]].ref = l})

\* C24: parse_outline_recursive bounds its depth by a fixed ceiling and does
\* not visit again a list it has already visited: no list is entered while it
\* is being parsed, and when every list is nested in one place at most, no
\* entry is returned more than once.
C24_VisitedListsAreNotReentered ==
    /\ Len(stack) <= RecursionLimit
    /\ \A a, b \in DOMAIN stack : stack[a].list = stack[b].list => a = b
    /\ (parse_pc = "done" /\ \A l \in ListIds : TimesNested(l) <= 1) =>
          \A a, b \in DOMAIN parsed : parsed[a].page = parsed[b].page => a = b

\* The lists nested directly in the lists of S.
NestedIn(S) ==
    {l \in ListIds : \E m \in S : \E j \in DOMAIN outline[m] :
        outline[m][j].kind = "list" /\ outline[m][j].ref = l}

RECURSIVE NestedWithin(_, _)
NestedWithin(S, k) ==
    IF k = 0 THEN {} ELSE NestedIn(S) \cup NestedWithin(NestedIn(S), k - 1)

\* No list that the outline holds is nested, at any depth, in itself.
OutlineIsAcyclic ==
    \A l \in {1} \cup NestedWithin({1}, Cardinality(ListIds)) :
        l \notin NestedWithin({l}, Cardinality(ListIds))

NoItem == [kind |-> "none", title |-> <<>>, page |-> 0, resolves |-> FALSE, ref |-> 0]

\* A position in the outline: the index in list 1, then the index in the
\* list nested there, and so on.
Positions == UNION {[1..n -> 1..MaxItems] : n \in 1..Cardinality(ListIds)}

RECURSIVE ItemOn(_, _)
ItemOn(l, position) ==
    IF position[1] \notin DOMAIN outline[l] THEN NoItem
    ELSE IF Len(position) = 1 THEN outline[l][position[1]]
    ELSE IF outline[l][position[1]].kind = "list"
    THEN ItemOn(outline[l][position[1]].ref, Tail(position))
    ELSE NoItem

\* The positions of the destinations that can be parsed.
ParsablePositions ==
    {q \in Positions : ItemOn(1, q).kind = "dest" /\ ItemOn(1, q).resolves}

\* Depth-first order: the position a comes before b.
ComesBefore(a, b) ==
    \E k \in DOMAIN a \cap DOMAIN b :
        a[k] < b[k] /\ \A j \in 1..(k - 1) : a[j] = b[j]

Rank(q) == 1 + Cardinality({r \in ParsablePositions : ComesBefore(r, q)})

\* The title of the bookmark a destination gives, white space taken off.
TitleOf(item) == IF item.title = PaddedTitle THEN T_RATING ELSE item.title

\* C25: for an acyclic outline the function returns, without raising, the
\* destinations that can be parsed in depth-first order (those of a nested
\* list at the place of that list, before the siblings that follow it); a
\* destination that cannot be parsed is left out and nothing else is dropped
\* or moved.
C25_ParseIsDepthFirst ==
    OutlineIsAcyclic =>
        /\ parse_pc = "parsing" => ENABLED NextParse
        /\ parse_pc = "done" =>
              /\ Len(parsed) = Cardinality(ParsablePositions)
              /\ \A q \in ParsablePositions :
                    parsed[Rank(q)] = Bookmark(TitleOf(ItemOn(1, q)), ItemOn(1, q).page)

\* A list nested in the first place holds a destination that cannot be
\* parsed and one that can, and a sibling follows the list.
C25_Witness ==
    /\ parse_pc = "done"
    /\ OutlineIsAcyclic
    /\ Len(outline[1]) = 2 /\ Len(outline[2]) = 2
    /\ outline[1][1] = ListItem(2)
    /\ outline[1][2].kind = "dest" /\ outline[1][2].resolves
    /\ outline[2][1].kind = "dest" /\ ~outline[2][1].resolves
    /\ outline[2][2].title = PaddedTitle
    /\ parsed = <<Bookmark(T_RATING, SlotPage(2, 2)), Bookmark(T_DIRECTORS, SlotPage(1, 2))>>

----------------------------------------------------------------------------
(* Toggling nodes: PromptManager instances over one configuration file *)

ConfigNodes == {"compliance_checks", "news_checks"}

\* The instances alive at a time: each request of the server makes its own.
ManagerIds == {"m1", "m2"}

\* What the 'enabled' key of a request body may hold.
EnabledInputs == {PyTrue, PyFalse, PyStr("false")}

InitialFiles ==
    [cache_prompts : BOOLEAN,
     nodes : [ConfigNodes ->
                [prompt_template : {Scalar("plain", "p0")},
                 enabled : {NoScalar, Scalar("plain", "false")}]]]

InitConfig ==
    /\ SessionOff
    /\ EditOff
    /\ TaskOff
    /\ WorkflowIdle
    /\ PdfOff
    /\ ReportOff
    /\ ParseOff
    /\ config_file \in InitialFiles
    /\ managers = [m \in ManagerIds |-> NoManager]
    /\ versions_dir = <<>>
    /\ cfg_now = 0

\* prompt_manager = PromptManager()
Construct(m) ==
    /\ managers' = [managers EXCEPT ![m] = _load_configuration(config_file)]
    /\ UNCHANGED <<nonConfigVars, config_file, versions_dir, cfg_now>>

\* manager.set_node_enabled(node_id, enabled); when the file cannot be
\* written the call raises after the change in memory.
SetNodeEnabled(m, node_id, enabled, saveOk) ==
    /\ managers[m].loaded
    /\ node_id \in DOMAIN managers[m].nodes
    /\ LET changed == set_node_enabled_data(managers[m], node_id, enabled) IN
       /\ managers' = [managers EXCEPT ![m] = changed]
       /\ config_file' = IF saveOk THEN _save_configuration(config_file, changed)
                         ELSE config_file
    /\ UNCHANGED <<nonConfigVars, versions_dir, cfg_now>>

NextToggle ==
    \/ \E m \in ManagerIds : Construct(m)
    \/ \E m \in ManagerIds, node_id \in ConfigNodes, enabled \in EnabledInputs,
          saveOk \in BOOLEAN : SetNodeEnabled(m, node_id, enabled, saveOk)

SpecToggle == InitConfig /\ [][NextToggle]_vars

\* A freshly loaded configuration reports the flag for the node.
FreshReports(file, node_id, enabled) ==
    is_node_enabled_of(_load_configuration(file), node_id) = enabled

\* The flag and the prompt of every other node are, freshly loaded, the same
\* in both files.
OthersUnchanged(before, after, node_id) ==
    \A o \in ConfigNodes \ {node_id} :
        _load_configuration(after).nodes[o] = _load_configuration(before).nodes[o]

\* C26: after set_node_enabled(node, e) has returned, a freshly loaded
\* configuration reports enabled = e for the node, and the enabled flag and
\* the prompt of every other node are what they were before the call.
C26_TogglePersists ==
    [][\A m \in ManagerIds, node_id \in ConfigNodes, enabled \in EnabledInputs :
          SetNodeEnabled(m, node_id, enabled, TRUE) =>
              /\ FreshReports(config_file', node_id, enabled)
              /\ OthersUnchanged(config_file, config_file', node_id)
      ]_vars

----------------------------------------------------------------------------
(* Saving prompt versions *)

MaxCfgClock == 1

\* The templates and version names of the requests; "yes" is a text that a
\* YAML document must quote, "" stands for no version name.
TemplateInputs == {PyStr("p1"), PyStr("yes")}

VersionNames == {"Test Version", ""}

\* A failure to write the version file leaves everything as it was; a failure
\* to write the configuration comes after the file and the memory have changed.
SaveFaults == {"none", "config_file"}

\* The node whose prompt the requests save versions of.
VersionedNodes == {"compliance_checks"}

\* manager.save_prompt_version(node_id, prompt_template, version_name): the
\* version file is written, then update_prompt(persist=True) changes the
\* prompt in memory and writes the configuration, which may raise.
SavePromptVersion(m, node_id, prompt_template, version_name, fault) ==
    /\ managers[m].loaded
    /\ node_id \in DOMAIN managers[m].nodes
    /\ LET version == version_data(node_id, prompt_template, version_name, cfg_now)
           changed == update_prompt_data(managers[m], node_id, prompt_template)
       IN
       /\ versions_dir' = (<<node_id, cfg_now>> :> json_dump(version)) @@ versions_dir
       /\ managers' = [managers EXCEPT ![m] = changed]
       /\ config_file' = IF fault = "none" THEN _save_configuration(config_file, changed)
                         ELSE config_file
    /\ UNCHANGED <<nonConfigVars, cfg_now>>

TickCfg ==
    /\ cfg_now < MaxCfgClock
    /\ cfg_now' = cfg_now + 1
    /\ UNCHANGED <<nonConfigVars, config_file, managers, versions_dir>>

NextVersions ==
    \/ \E m \in ManagerIds : Construct(m)
    \/ \E m \in ManagerIds, node_id \in VersionedNodes, prompt_template \in TemplateInputs,
          version_name \in VersionNames, fault \in SaveFaults :
            SavePromptVersion(m, node_id, prompt_template, version_name, fault)
    \/ TickCfg

SpecVersions == InitConfig /\ [][NextVersions]_vars

\* C27: when save_prompt_version(node, template, name) has returned, its
\* version record has a version id under which get_version, and
\* get_version_history, give a record with that template, and the template is
\* the node's active prompt in the instance and in a freshly loaded
\* configuration.
C27_SavedVersionIsActive ==
    [][\A m \in ManagerIds, node_id \in VersionedNodes, prompt_template \in TemplateInputs,
         version_name \in VersionNames :
          SavePromptVersion(m, node_id, prompt_template, version_name, "none") =>
              LET returned == version_data(node_id, prompt_template, version_name, cfg_now)
                  version_id == returned.version_id
              IN
              /\ <<node_id, version_id>> \in DOMAIN versions_dir'
              /\ get_version(versions_dir', node_id, version_id).prompt_template
                    = prompt_template
              /\ \E v \in get_version_history(versions_dir', node_id) :
                    v.version_id = version_id /\ v.prompt_template = prompt_template
              /\ active_prompt(managers'[m], node_id) = prompt_template
              /\ managers'[m].nodes[node_id].prompt_template = prompt_template
              /\ active_prompt(_load_configuration(config_file'), node_id) = prompt_template
      ]_vars

\* A version of compliance_checks with a template that YAML must quote has
\* been saved over an earlier one, by an instance that caches its prompts.
C27_Witness ==
    /\ <<"compliance_checks", 0>> \in DOMAIN versions_dir
    /\ <<"compliance_checks", 1>> \in DOMAIN versions_dir
    /\ get_version(versions_dir, "compliance_checks", 1).prompt_template = PyStr("yes")
    /\ config_file.cache_prompts
    /\ config_file.nodes["compliance_checks"].prompt_template = Scalar("quoted", "yes")
    /\ \E m \in ManagerIds :
          /\ managers[m].loaded
          /\ active_prompt(managers[m], "compliance_checks") = PyStr("yes")

\* The version ids of the node's history.
VersionIds(dir, node_id) == {v.version_id : v \in get_version_history(dir, node_id)}

\* C38: every save_prompt_version call that returns adds exactly one entry to
\* the node's version history, under a version id that no earlier version of
\* the node has, and every earlier version is still in the history as it was.
C38_SaveAddsOneVersion ==
    [][\A m \in ManagerIds, node_id \in VersionedNodes, prompt_template \in TemplateInputs,
         version_name \in VersionNames :
          SavePromptVersion(m, node_id, prompt_template, version_name, "none") =>
              LET before == get_version_history(versions_dir, node_id)
                  after == get_version_history(versions_dir', node_id)
                  version_id == version_data(node_id, prompt_template, version_name,
                                             cfg_now).version_id
              IN
              /\ version_id \notin VersionIds(versions_dir, node_id)
              /\ before \subseteq after
              /\ Cardinality(after) = Cardinality(before) + 1
      ]_vars

----------------------------------------------------------------------------
(* The prompt cache of one instance *)

\* manager.update_prompt(node_id, new_prompt, persist); with persist the
\* configuration is written, which may raise after the change in memory.
UpdatePrompt(m, node_id, new_prompt, persist, saveOk) ==
    /\ managers[m].loaded
    /\ node_id \in DOMAIN managers[m].nodes
    /\ LET changed == update_prompt_data(managers[m], node_id, new_prompt) IN
       /\ managers' = [managers EXCEPT ![m] = changed]
       /\ config_file' = IF persist /\ saveOk THEN _save_configuration(config_file, changed)
                         ELSE config_file
    /\ UNCHANGED <<nonConfigVars, versions_dir, cfg_now>>

\* manager.set_active_version(node_id, version_id), for a version that exists:
\* its template goes through update_prompt(persist=True).
SetActiveVersion(m, node_id, version_id, saveOk) ==
    /\ managers[m].loaded
    /\ node_id \in DOMAIN managers[m].nodes
    /\ <<node_id, version_id>> \in DOMAIN versions_dir
    /\ LET prompt_template == get_version(versions_dir, node_id, version_id).prompt_template
           changed == update_prompt_data(managers[m], node_id, prompt_template)
       IN
       /\ managers' = [managers EXCEPT ![m] = changed]
       /\ config_file' = IF saveOk THEN _save_configuration(config_file, changed)
                         ELSE config_file
    /\ UNCHANGED <<nonConfigVars, versions_dir, cfg_now>>

\* manager.reload_configuration(): the cache is cleared, then the file is
\* loaded; when the file cannot be read prompts_data stays what it was.
ReloadConfiguration(m, readOk) ==
    /\ managers[m].loaded
    /\ managers' = [managers EXCEPT ![m] =
                       IF readOk THEN _load_configuration(config_file)
                       ELSE [@ EXCEPT !.cache = <<>>]]
    /\ UNCHANGED <<nonConfigVars, config_file, versions_dir, cfg_now>>

NextCache ==
    \/ \E m \in ManagerIds : Construct(m)
    \/ \E m \in ManagerIds, node_id \in VersionedNodes, new_prompt \in TemplateInputs,
          persist \in BOOLEAN, saveOk \in BOOLEAN :
            UpdatePrompt(m, node_id, new_prompt, persist, saveOk)
    \/ \E m \in ManagerIds, node_id \in VersionedNodes, prompt_template \in TemplateInputs,
          fault \in SaveFaults :
            SavePromptVersion(m, node_id, prompt_template, "Test Version", fault)
    \/ \E m \in ManagerIds, node_id \in VersionedNodes, version_id \in 0..MaxCfgClock,
          saveOk \in BOOLEAN : SetActiveVersion(m, node_id, version_id, saveOk)
    \/ \E m \in ManagerIds, readOk \in BOOLEAN : ReloadConfiguration(m, readOk)
    \/ TickCfg

SpecCache == InitConfig /\ [][NextCache]_vars

\* Every cached template of the instance is the one its configuration data
\* holds for the node, so get_prompt formats the template of the data.
CacheAgrees(manager) ==
    /\ DOMAIN manager.cache \subseteq DOMAIN manager.nodes
    /\ \A n \in DOMAIN manager.cache : manager.cache[n] = manager.nodes[n].prompt_template
    /\ \A n \in DOMAIN manager.nodes :
          active_prompt(manager, n) = manager.nodes[n].prompt_template

\* The instance as update_prompt leaves it in memory, whether or not the
\* configuration is then written.
AfterUpdate(m, node_id, new_prompt) == update_prompt_data(managers[m], node_id, new_prompt)

\* C36: on each instance, after any sequence of update_prompt,
\* save_prompt_version, set_active_version and reload_configuration, the
\* cached template of every cached node is the template the configuration
\* data holds, and an update_prompt or set_active_version made next leaves
\* get_prompt formatting the template it sets.
C36_CacheFollowsData ==
    \A m \in ManagerIds :
        managers[m].loaded =>
            /\ CacheAgrees(managers[m])
            /\ \A node_id \in DOMAIN managers[m].nodes :
                  /\ \A new_prompt \in TemplateInputs :
                        /\ active_prompt(AfterUpdate(m, node_id, new_prompt), node_id)
                              = new_prompt
                        /\ CacheAgrees(AfterUpdate(m, node_id, new_prompt))
                  /\ \A version_id \in 0..MaxCfgClock :
                        <<node_id, version_id>> \in DOMAIN versions_dir =>
                            LET prompt_template ==
                                    get_version(versions_dir, node_id, version_id).prompt_template
                            IN active_prompt(AfterUpdate(m, node_id, prompt_template), node_id)
                                  = prompt_template

\* An instance that caches its prompts holds, in its cache and in its data,
\* the template of a version it has made active after another template was
\* set, while the file holds a third state.
C36_Witness ==
    /\ managers["m1"].loaded
    /\ "compliance_checks" \in DOMAIN managers["m1"].cache
    /\ managers["m1"].cache["compliance_checks"] = PyStr("yes")
    /\ <<"compliance_checks", 0>> \in DOMAIN versions_dir
    /\ get_version(versions_dir, "compliance_checks", 0).prompt_template = PyStr("yes")
    /\ <<"compliance_checks", 1>> \in DOMAIN versions_dir
    /\ get_version(versions_dir, "compliance_checks", 1).prompt_template = PyStr("p1")
    /\ config_file.nodes["compliance_checks"].prompt_template = Scalar("plain", "p1")

----------------------------------------------------------------------------
(* Two configuration requests served at the same time *)

\* The node each request edits, and the instance its handler constructs.
EditedNode(r) == IF r = "toggle_node" THEN "compliance_checks" ELSE "news_checks"

ManagerOf(r) == IF r = "toggle_node" THEN "m1" ELSE "m2"

\* PUT .../nodes/compliance_checks/toggle with {'enabled': e} and
\* PUT .../nodes/news_checks with {'prompt_template': t}, both received.
InitEdits ==
    /\ SessionOff
    /\ WorkflowIdle
    /\ PdfOff
    /\ ReportOff
    /\ ParseOff
    /\ TaskOff
    /\ config_file \in InitialFiles
    /\ managers = [m \in ManagerIds |-> NoManager]
    /\ versions_dir = <<>>
    /\ cfg_now = 0
    /\ edit_pc = [r \in EditRequests |-> "received"]
    /\ \E e \in {PyTrue, PyFalse}, t \in TemplateInputs :
          edit_body = ("toggle_node" :> e) @@ ("update_node" :> t)

\* prompt_manager = PromptManager() in the handler.
HandlerLoads(r) ==
    /\ edit_pc[r] = "received"
    /\ managers' = [managers EXCEPT ![ManagerOf(r)] = _load_configuration(config_file)]
    /\ edit_pc' = [edit_pc EXCEPT ![r] = "loaded"]
    /\ UNCHANGED <<nonConfigEditVars, config_file, versions_dir, cfg_now, edit_body>>

\* The handler's edit: set_node_enabled in toggle_node, update_prompt with
\* persist=True in update_node; both write the configuration and the handler
\* answers.
EditedManager(r) ==
    IF r = "toggle_node"
    THEN set_node_enabled_data(managers[ManagerOf(r)], EditedNode(r), edit_body[r])
    ELSE update_prompt_data(managers[ManagerOf(r)], EditedNode(r), edit_body[r])

HandlerEdits(r) ==
    /\ edit_pc[r] = "loaded"
    /\ managers' = [managers EXCEPT ![ManagerOf(r)] = EditedManager(r)]
    /\ config_file' = _save_configuration(config_file, EditedManager(r))
    /\ edit_pc' = [edit_pc EXCEPT ![r] = "answered"]
    /\ UNCHANGED <<nonConfigEditVars, versions_dir, cfg_now, edit_body>>

NextEdits == \E r \in EditRequests : HandlerLoads(r) \/ HandlerEdits(r)

SpecEdits == InitEdits /\ [][NextEdits]_vars

\* C37: once both requests are answered, the stored configuration holds the
\* flag that the toggle request set for its node and the template that the
\* update request set for its node, whatever the interleaving.
C37_BothEditsPersist ==
    (\A r \in EditRequests : edit_pc[r] = "answered") =>
        LET stored == _load_configuration(config_file) IN
        /\ is_node_enabled_of(stored, EditedNode("toggle_node")) = edit_body["toggle_node"]
        /\ active_prompt(stored, EditedNode("update_node")) = edit_body["update_node"]

----------------------------------------------------------------------------
(* What the sink sends and what it returns after the primary call *)

\* C28: the primary call is sent all seven outputs, and every output that is
\* unset is passed as the empty text, in the prompt variables and in the
\* concatenated content.
C28_AbsentOutputsSentEmpty ==
    [][WriterRuns /\ WriterReport.kind = "llm_report" =>
          /\ DOMAIN WriterReport.sent.prompt = Tasks
          /\ DOMAIN WriterReport.sent.all_content = Tasks
          /\ \A t \in Tasks :
                IF outputs[t] = NoneVal
                THEN WriterReport.sent.prompt[t] = "" /\ WriterReport.sent.all_content[t] = ""
                ELSE WriterReport.sent.prompt[t] = outputs[t]
                     /\ WriterReport.sent.all_content[t] = outputs[t]
      ]_vars

\* The sink is about to run with data to consolidate, and the primary call
\* answers resp with a non-empty text.
PrimaryCallAnswers(resp) ==
    /\ Runnable("writer")
    /\ ~insufficient_data(outputs)
    /\ Truthy(analyze_text_content(resp))

\* What the sink returns as final report in the current state of the run.
SinkReport(promptOk, tmpOk, resp, saveOk) ==
    _report_writer_node(outputs, errors, promptOk, tmpOk, resp, saveOk).delta["final_report"]

\* C29: whenever the primary call answers a non-empty text, the sink's final
\* report is that text; neither the concatenated report nor the error report
\* takes its place.
C29_NonEmptyPrimaryIsFinal ==
    \A resp \in GeminiResponses \ {"unreadable_pdf"}, saveOk \in BOOLEAN :
        PrimaryCallAnswers(resp) =>
            SinkReport(TRUE, TRUE, resp, saveOk) = LlmReport(primary_call_content(outputs))

----------------------------------------------------------------------------
(* Output slots and statuses *)

\* C30: in every state of a run a task's output slot is set, and then to a
\* non-empty text, exactly when the task's status is completed; the slot of a
\* failed, skipped or pending task is unset.
C30_SlotSetIffCompleted ==
    \A t \in Tasks :
        /\ outputs[t] # ""
        /\ outputs[t] # NoneVal <=> Status(t) = "completed"
        /\ Status(t) \in {"failed", "skipped", "pending"} => outputs[t] = NoneVal

C30_Witness ==
    /\ Status("company_overview") = "completed" /\ outputs["company_overview"] = "text"
    /\ Status("industry_overview") = "failed" /\ callFault["industry_overview"] = FALSE
    /\ Status("compliance_checks") = "completed" /\ callFault["compliance_checks"]
    /\ Status("news_checks") = "skipped"
    /\ Status("promoters_directors") = "pending"
    /\ outputs["promoters_directors"] = NoneVal

----------------------------------------------------------------------------
(* The sink over a whole run *)

\* C31: the writer executes exactly once per run: it is never scheduled in a
\* step in which some analysis task is not yet terminal, it never executes a
\* second time, and it has executed when run returns a report.
C31_SinkRunsExactlyOnce ==
    /\ execs["writer"] <= 1
    /\ (pc = "invoke" /\ "writer" \in active) => \A t \in Tasks : Status(t) \in Terminal
    /\ (pc = "returned" /\ result.success) => execs["writer"] = 1

\* 'Insufficient data to generate comprehensive report'
InsufficientDataEntry == Err("writer", "insufficient_data")

\* run has returned the result of a finished graph execution.
RunReturned == pc = "returned" /\ result.success

\* C32: the error log returned by run holds the insufficient-data entry
\* exactly when the returned report is the error report; a run that returns
\* the collaborator's report or the concatenated one never carries the entry.
C32_InsufficientEntryIffErrorReport ==
    RunReturned =>
        (Occurs(result.errors, InsufficientDataEntry) > 0
            <=> result.report.kind = "error_report")

\* The step in which invoke ends and run returns the graph's result.
RunReturns == pc = "invoke" /\ pc' = "returned" /\ result'.success

\* C33: the report run returns was computed by the sink from a state in which
\* all seven tasks were terminal and every output of the end of the run was
\* already in its slot: the returned report is what the sink's last execution
\* returned, and that execution read the statuses and outputs that run returns.
C33_ReturnedReportSawAllOutputs ==
    [][RunReturns =>
          /\ "writer" \in DOMAIN writes
          /\ result'.report = writes["writer"]["final_report"]
          /\ \E o \in WriterOutcomes : o.delta = writes["writer"]
          /\ \A t \in Tasks :
                /\ Status(t) \in Terminal
                /\ result'.processing_status[t] = Status(t)
                /\ result'.outputs[t] = outputs[t]
      ]_vars

\* run has returned the collaborator's report, which was sent the output of
\* a document task that the sink's early execution could not see.
C33_Witness ==
    /\ RunReturned
    /\ execs["writer"] = 2
    /\ result.report.kind = "llm_report"
    /\ result.outputs["financials"] = "text"
    /\ result.report.sent.all_content["financials"] = "text"
    /\ result.outputs["credit_rating"] = NoneVal

----------------------------------------------------------------------------
(* The error log at the end of a run *)

\* The extraction gate has run, its step is merged, and it failed.
GateFailed ==
    execs["pdf_processor"] > 0 /\ "pdf_processor" \notin DOMAIN writes /\ ~pdf_processed

\* An enabled document task that was skipped because extraction had failed.
SkippedForExtraction(t) ==
    t \in DocTasks /\ Status(t) = "skipped" /\ catalogSeen[t] = "enabled"

\* C34: the entries that the analysis stages contributed to the error log are
\* one for a failed extraction gate, one for each failed task and one for each
\* document task skipped because extraction failed; a completed task and a
\* task skipped as disabled contribute none, no stage contributes two, and
\* the log that run returns is this log.
C34_ErrorLogOfAnalysisStages ==
    /\ \A i \in DOMAIN errors : errors[i].node \in Tasks \cup {"pdf_processor", "writer"}
    /\ CountBy(errors, "pdf_processor") = (IF GateFailed THEN 1 ELSE 0)
    /\ \A t \in Tasks :
          CountBy(errors, t) =
              (IF Status(t) = "failed" \/ SkippedForExtraction(t) THEN 1 ELSE 0)
    /\ RunReturned => result.errors = errors /\ result.processing_status = processing_status

\* run has returned after a failed extraction: a failed document task, a
\* failed search task, a disabled task and a completed task are in the result.
C34_Witness ==
    /\ RunReturned
    /\ GateFailed
    /\ result.processing_status["financials"] = "failed"
    /\ result.processing_status["credit_rating"] = "skipped"
    /\ catalogSeen["credit_rating"] = "disabled"
    /\ result.processing_status["company_overview"] = "failed"
    /\ result.processing_status["news_checks"] = "skipped"
    /\ result.processing_status["compliance_checks"] = "completed"
    /\ callFault["compliance_checks"]
    /\ Len(result.errors) >= 3

----------------------------------------------------------------------------
(* An analysis node called on its own *)

\* What the state holds of the extraction when a document node runs.
ExtractionStates == {[pdf_processed |-> FALSE, pdf_chunks |-> NoneVal],
                     [pdf_processed |-> TRUE, pdf_chunks |-> "chunks"]}

InitTask ==
    /\ SessionOff
    /\ EditOff
    /\ WorkflowIdle
    /\ PdfOff
    /\ ReportOff
    /\ ParseOff
    /\ ConfigOff
    /\ TaskOff

CallSearchNode(n) ==
    /\ task_call = NoCall
    /\ \E cat \in CatalogStates, templateOk \in BOOLEAN, resp \in SearchResponses :
         /\ task_call' = [node |-> n, cat |-> cat, templateOk |-> templateOk, resp |-> resp]
         /\ task_return' = SearchNodeFn(n, cat, templateOk, resp)
    /\ UNCHANGED nonTaskVars

CallDocNode(n) ==
    /\ task_call = NoCall
    /\ \E cat \in CatalogStates, templateOk \in BOOLEAN, resp \in GeminiResponses,
          st \in ExtractionStates :
         /\ task_call' = [node |-> n, cat |-> cat, templateOk |-> templateOk, resp |-> resp,
                          state |-> st]
         /\ task_return' = DocNodeFn(n, cat, templateOk, resp, st.pdf_processed, st.pdf_chunks)
    /\ UNCHANGED nonTaskVars

NextTask ==
    \/ \E n \in SearchNodes : CallSearchNode(n)
    \/ \E n \in DocNodes : CallDocNode(n)

SpecTask == InitTask /\ [][NextTask]_vars

\* The node function has returned.
TaskReturned == task_call # NoCall

\* The enablement check of the call raised: the catalog lacks the task's id.
CheckRaised == TaskReturned /\ task_call.cat = "missing"

ReturnedStatus == task_return.delta["processing_status"][TaskOf(task_call.node)]

\* C35: a task whose enablement check raises is treated as enabled: it is not
\* marked skipped; it goes on, and as its prompt cannot be produced it ends
\* failed with one error, no output and no external call.
C35_CheckRaisedMeansEnabled ==
    CheckRaised =>
        /\ ReturnedStatus # "skipped"
        /\ ReturnedStatus = "failed"
        /\ "errors" \in DOMAIN task_return.delta
        /\ Len(task_return.delta["errors"]) = 1
        /\ TaskOf(task_call.node) \notin DOMAIN task_return.delta
        /\ ~task_return.called

C35_Witness ==
    /\ CheckRaised
    /\ task_call.node = "node_news"
    /\ task_call.templateOk
    /\ ReturnedStatus = "failed"

----------------------------------------------------------------------------
(* Analysis sessions of the server *)

\* What run_workflow returns: the result of run(), or the failure dictionary
\* of run()'s and of run_workflow's except clause, whose report is None.
WorkflowResults ==
    {RunFailure,
     RunResult(LlmReport(primary_call_content(initial_outputs)), <<>>, EmptyDict,
               initial_outputs),
     RunResult(_generate_error_report(<<InsufficientDataEntry>>), <<InsufficientDataEntry>>,
               EmptyDict, initial_outputs)}

\* Mutant: a failed run puts the session back to uploading.
overall_status_Uploading(res) == IF ~res.success THEN "uploading" ELSE "completed"

\* overall_status of run_analysis_async.
overall_status(res) == IF ~res.success THEN "failed" ELSE "completed"

\* analysis_sessions[analysis_id] of analyze_company.
new_session == [status |-> "uploading", errors |-> <<>>, result |-> NoResult]

\* Truthiness of session['result']: None is falsy, a dictionary with keys is not.
result_truthy(res) == res # NoResult

\* get_result: the answer for an analysis id.
get_result(sessions, id) ==
    IF id \notin DOMAIN sessions
    THEN [code |-> 404, success |-> FALSE, report |-> NoReport]
    ELSE IF sessions[id].status = "processing" \/ sessions[id].status = "uploading"
    THEN [code |-> 202, success |-> FALSE, report |-> NoReport]
    ELSE IF ~result_truthy(sessions[id].result)
    THEN [code |-> 500, success |-> FALSE, report |-> NoReport]
    ELSE [code |-> 200, success |-> TRUE, report |-> sessions[id].result.report]

InitSessions ==
    /\ WorkflowIdle
    /\ PdfOff
    /\ ReportOff
    /\ ParseOff
    /\ ConfigOff
    /\ TaskOff
    /\ EditOff
    /\ SessionOff

\* POST /api/analyze with a company name and a PDF: the session is created
\* and its thread started.
AnalyzeCompany(id) ==
    /\ id \notin DOMAIN analysis_sessions
    /\ analysis_sessions' = (id :> new_session) @@ analysis_sessions
    /\ thread_pc' = [thread_pc EXCEPT ![id] = "started"]
    /\ UNCHANGED <<nonSessionVars, responses>>

\* run_analysis_async: the first statement of the thread.
ThreadStarts(id) ==
    /\ thread_pc[id] = "started"
    /\ analysis_sessions' = [analysis_sessions EXCEPT ![id].status = "processing"]
    /\ thread_pc' = [thread_pc EXCEPT ![id] = "running"]
    /\ UNCHANGED <<nonSessionVars, responses>>

\* run_workflow has returned and the session is updated in one dict.update.
ThreadFinishes(id) ==
    /\ thread_pc[id] = "running"
    /\ \E res \in WorkflowResults :
          analysis_sessions' = [analysis_sessions EXCEPT
                                   ![id] = [status |-> overall_status(res),
                                            errors |-> res.errors, result |-> res]]
    /\ thread_pc' = [thread_pc EXCEPT ![id] = "done"]
    /\ UNCHANGED <<nonSessionVars, responses>>

\* The except clause of run_analysis_async: an exception in the thread.
ThreadRaises(id) ==
    /\ thread_pc[id] = "running"
    /\ analysis_sessions' = [analysis_sessions EXCEPT
                                ![id] = [status |-> "failed",
                                         errors |-> <<Err("thread", "exception")>>,
                                         result |-> NoResult]]
    /\ thread_pc' = [thread_pc EXCEPT ![id] = "done"]
    /\ UNCHANGED <<nonSessionVars, responses>>

\* GET /api/result/<id>
GetResult(id) ==
    /\ responses' = [responses EXCEPT ![id] = get_result(analysis_sessions, id)]
    /\ UNCHANGED <<nonSessionVars, analysis_sessions, thread_pc>>

NextSessions ==
    \/ \E id \in SessionIds : AnalyzeCompany(id)
    \/ \E id \in SessionIds : ThreadStarts(id)
    \/ \E id \in SessionIds : ThreadFinishes(id)
    \/ \E id \in SessionIds : ThreadRaises(id)
    \/ \E id \in SessionIds : GetResult(id)

SpecSessions == InitSessions /\ [][NextSessions]_vars

SessionStatus(id) ==
    IF id \in DOMAIN analysis_sessions THEN analysis_sessions[id].status ELSE "absent"

\* The moves of a session's status.
StatusMoves == {<<"absent", "uploading">>, <<"uploading", "processing">>,
                <<"processing", "completed">>, <<"processing", "failed">>}

\* C39: a session's status only moves forward along uploading, processing,
\* then completed or failed; once completed or failed it never changes, and
\* the result endpoint answers with a report only for a session that is
\* completed or failed at that time.
C39_SessionStatusMovesForward ==
    [][\A id \in SessionIds :
          /\ SessionStatus(id)' # SessionStatus(id) =>
                <<SessionStatus(id), SessionStatus(id)'>> \in StatusMoves
          /\ SessionStatus(id) \in {"completed", "failed"} =>
                analysis_sessions'[id] = analysis_sessions[id]
          /\ GetResult(id) =>
                (SessionStatus(id) \in {"uploading", "processing"} =>
                    /\ responses'[id].code = 202
                    /\ ~responses'[id].success
                    /\ responses'[id].report = NoReport)
      ]_vars

\* One session is completed and was answered with its report; the other is
\* processing and was answered that it is not complete.
C39_Witness ==
    /\ SessionStatus("a1") = "completed"
    /\ responses["a1"].code = 200
    /\ responses["a1"].report.kind = "llm_report"
    /\ SessionStatus("a2") = "processing"
    /\ responses["a2"].code = 202

\* C40: the result endpoint answers success = true only for a session whose
\* run reported success and produced a report; for a failed session it
\* answers with a failure, never with success = true and no report.
C40_SuccessOnlyForSuccessfulRun ==
    [][\A id \in SessionIds :
          GetResult(id) =>
              /\ responses'[id].success =>
                    /\ SessionStatus(id) = "completed"
                    /\ analysis_sessions[id].result.success
                    /\ responses'[id].report # NoReport
              /\ SessionStatus(id) = "failed" => ~responses'[id].success
      ]_vars

====
